---- MODULE Spec2Model ----
(***************************************************************************)
(* A model of the stock-report generator: the cached stock download        *)
(* (data_collection.py), the auto-publisher loop with its pickled state    *)
(* file (auto_publisher.py) and the Flask routes with the two pipelines    *)
(* (app.py, pipeline.py).                                                  *)
(***************************************************************************)
EXTENDS Integers, Sequences, FiniteSets, TLC

VARIABLES
    \* ---- data_collection.fetch_stock_data ----
    cache,        \* ticker -> the file <ticker>_stock_data.csv in data_cache
    fpc,          \* position of the running call: "idle", "loop", "done"
    fargs,        \* arguments of the running call
    attempt,      \* the local counter `attempt`
    downloads,    \* number of yf.download calls made by the running call
    waits,        \* the back-off sleeps made by the running call, in order
    dl,           \* the frame the last yf.download of the call returned
    wrote,        \* TRUE when the running call wrote the cache file
    ferror,       \* the message of the exception the last download attempt raised
    fresult,      \* what the call returned or raised
    \* ---- macro_data.fetch_macro_indicators ----
    mcache,       \* the file data_cache/macro_indicators.csv
    mcall,        \* the most recent call and what it met
    mresult,      \* what that call returned or raised
    \* ---- data_preprocessing.preprocess_data ----
    pstock,       \* the stock table of the most recent call
    pmacro,       \* its macro table
    pfeatures,    \* whether the macro table had the macro feature columns
    presult,      \* what the call returned or raised
    \* ---- auto_publisher.py ----
    env,                        \* MIN_INTERVAL_MINUTES_STR, MAX_INTERVAL_MINUTES_STR
    MIN_INTERVAL_MINUTES,
    MAX_INTERVAL_MINUTES,
    WRITERS_CONFIG,             \* the list of writer entries
    MASTER_TICKERS_LIST,
    pending_tickers,
    failed_tickers,
    last_writer_idx_processed,
    writer_iterator,            \* 0-based position in WRITERS_CONFIG of the entry next() yields
    posts_published_today,
    last_publish_time,          \* NoTime, or the day of the last successful publish
    published_on_date,          \* the posts published on the date `today` by all runs of
                                \* the process, where they are counted; else Uncounted
    today,                      \* the date datetime.now() gives
    stateFile,                  \* auto_publisher_state.pkl
    jobs,                       \* the jobs held by the schedule module
    lastJob,                    \* what the most recent job() of this process run did
    lastProcessed,              \* the writer position the last ticker-processing job used, and
                                \* whether the state file on disk is the one that job saved
    pass,                       \* the tickers attempted since the pending list was last
                                \* the master list (or was loaded from a state file)
    roundTrip,                  \* the last thing done to the state file: "loaded", "saved", "removed"
    \* ---- app.py, pipeline.py ----
    wroute,       \* the caller of the pipeline: "generate", "wp-assets", "direct"
    wreq,         \* the request being handled
    wticker,      \* the ticker handed to the pipeline
    wpipe,        \* the pipeline called: "run_pipeline", "run_wp_pipeline", "none"
    wpc,          \* position of the handler and of the pipeline it runs
    wsteps,       \* the steps the pipeline has run, in order
    wmacro,       \* what fetch_macro_indicators gave the pipeline: "data", "empty"
    wfailed,      \* the step at which the pipeline gave up, "none" if it did not
    wgen,         \* what the report generator returned and wrote
    wfile,        \* the report file this call left in static: its content, or None
    wret,         \* what the pipeline returned
    wresp,        \* the response of the route
    wsent,        \* the report HTML carried by the response, or None
    sdata,        \* determine_sentiment: the dictionary of indicator values handed in
    spct,         \* the forecast change in percent handed in
    slabel,       \* the label the call returned, or NoLabel before it
    \* ---- app.py served by threads ----
    clock,        \* int(time.time()), in seconds
    threads,      \* for each request thread: the /generate request it handles and its step
    stockCaches,  \* the tickers whose stock cache file is in data_cache
    written       \* the files written by the requests in flight, each with its writer

fetchVars == <<cache, fpc, fargs, attempt, downloads, waits, dl, wrote, ferror, fresult>>

pubVars ==
    <<env, MIN_INTERVAL_MINUTES, MAX_INTERVAL_MINUTES, WRITERS_CONFIG, MASTER_TICKERS_LIST,
      pending_tickers, failed_tickers, last_writer_idx_processed, writer_iterator,
      posts_published_today, last_publish_time, published_on_date, today, stateFile, jobs, lastJob,
      lastProcessed, pass, roundTrip>>

webVars ==
    <<wroute, wreq, wticker, wpipe, wpc, wsteps, wmacro, wfailed, wgen, wfile, wret, wresp, wsent>>

macroVars == <<mcache, mcall, mresult>>

prepVars == <<pstock, pmacro, pfeatures, presult>>

sentVars == <<sdata, spct, slabel>>

filesVars == <<clock, threads, stockCaches, written>>

vars == <<fetchVars, macroVars, prepVars, pubVars, webVars, sentVars, filesVars>>

\* What a step of one program leaves alone: the state of the others.
outsideFetch == <<macroVars, prepVars, pubVars, webVars, sentVars, filesVars>>
outsideMacro == <<fetchVars, prepVars, pubVars, webVars, sentVars, filesVars>>
outsidePrep == <<fetchVars, macroVars, pubVars, webVars, sentVars, filesVars>>
outsidePub == <<fetchVars, macroVars, prepVars, webVars, sentVars, filesVars>>
outsideWeb == <<fetchVars, macroVars, prepVars, pubVars, sentVars, filesVars>>
outsideSent == <<fetchVars, macroVars, prepVars, pubVars, webVars, filesVars>>
outsideFiles == <<fetchVars, macroVars, prepVars, pubVars, webVars, sentVars>>

(***************************************************************************)
(* Bounds                                                                  *)
(***************************************************************************)
MaxRows == 1
MaxRetries == 3
MaxDay == 1
MaxListLen == 2
MaxGap == 2
MaxSecond == 1

(***************************************************************************)
(* data_collection.py                                                      *)
(***************************************************************************)
FetchTickers == {"T1", "T2"}

required == {"Date", "Open", "High", "Low", "Close", "Volume"}

NoFile == [kind |-> "nofile"]
Unreadable == [kind |-> "unreadable"]

\* A csv file on disk: its header, its number of rows and whether some row
\* has an empty Date cell.
CsvFile(cols, rows, bad) == [kind |-> "csv", cols |-> cols, rows |-> rows, badDates |-> bad]

\* The files that may lie in data_cache when the function is called.
CacheFiles ==
    {NoFile, Unreadable,
     CsvFile(required \ {"Volume"}, 1, FALSE),
     CsvFile(required, 0, FALSE)}
    \cup {CsvFile(required, r, TRUE) : r \in 1..MaxRows}
    \cup {CsvFile(required, r, FALSE) : r \in 1..MaxRows}
    \cup {CsvFile(required \cup {"Adj Close"}, r, FALSE) : r \in 1..MaxRows}

\* The frames yf.download can return, after reset_index: the column labels
\* (each a sequence of parts: a tuple label, or a string split at '_'), the
\* number of rows with a valid date and the number with an invalid one.
ColumnLayouts ==
    { << <<"Date">>, <<"Close", "T">>, <<"High", "T">>, <<"Low", "T">>, <<"Open", "T">>, <<"Volume", "T">> >>,
      << <<"Datetime">>, <<"Close">>, <<"High">>, <<"Low">>, <<"Open">>, <<"Volume">> >>,
      << <<"index">>, <<"Close">>, <<"High">>, <<"Low">>, <<"Open">>, <<"Volume">> >>,
      << <<"Date">>, <<"Close", "T">>, <<"High", "T">>, <<"Low", "T">>, <<"Open", "T">> >> }

Frames == [cols : ColumnLayouts, valid : 0..MaxRows, invalid : 0..1]

Empty(frame) == frame.valid + frame.invalid = 0

\* lines 117-120: a tuple label keeps its first element, a string label the
\* part before the first '_'
FirstPart(col) == col[1]

\* line 122: 'date' in c.lower()
IsDateLike(name) == name \in {"Date", "Datetime", "date"}

RECURSIVE FirstDateLike(_, _)
FirstDateLike(names, i) ==
    IF i > Len(names) THEN 0
    ELSE IF IsDateLike(names[i]) THEN i
    ELSE FirstDateLike(names, i + 1)

\* lines 117-123: the column names after flattening and the rename of the
\* first date-like column to 'Date'
ProcessedColumns(frame) ==
    LET names == [i \in 1..Len(frame.cols) |-> FirstPart(frame.cols[i])]
        d == FirstDateLike(names, 1)
    IN  {IF d # 0 /\ names[i] = names[d] THEN "Date" ELSE names[i] : i \in 1..Len(names)}

\* The check with the required columns compared for equality: a file with
\* an extra column is downloaded again.
CacheUsable_ExactColumns(file) ==
    /\ file.kind = "csv"
    /\ required = file.cols
    /\ file.rows > 0
    /\ ~file.badDates

\* lines 50-61: the validity check of a cache file
CacheUsable(file) ==
    /\ file.kind = "csv"
    /\ required \subseteq file.cols
    /\ file.rows > 0
    /\ ~file.badDates

RetNone == [kind |-> "None"]
RetData(cols, rows, fromCache) == [kind |-> "data", cols |-> cols, rows |-> rows, fromCache |-> fromCache]
Raised(exc) == [kind |-> "raise", exc |-> exc]
NoResult == [kind |-> "pending"]

NoDownload == [cols |-> <<>>, valid |-> 0, invalid |-> 0]

\* No exception was raised by yf.download.
NoError == ""

RetryChoices == 0..MaxRetries
PauseChoices == {1, 2}

FetchArgs ==
    [ticker : FetchTickers, app_root : {"", "/app"}, max_retries : RetryChoices,
     pause_secs : PauseChoices, dates : {"none", "inverted"}]

FetchInitWith(files) ==
    /\ cache \in [FetchTickers -> files]
    /\ fpc = "idle"
    /\ fargs = [ticker |-> "T1", app_root |-> "/app", max_retries |-> 3, pause_secs |-> 2, dates |-> "none"]
    /\ attempt = 0
    /\ downloads = 0
    /\ waits = <<>>
    /\ dl = NoDownload
    /\ wrote = FALSE
    /\ ferror = NoError
    /\ fresult = NoResult

\* lines 30-82: the call up to the start of the download loop
CacheCheck(args) ==
    /\ fpc \in {"idle", "done"}
    /\ fargs' = args
    /\ attempt' = 0
    /\ downloads' = 0
    /\ waits' = <<>>
    /\ dl' = NoDownload
    /\ wrote' = FALSE
    /\ ferror' = NoError
    /\ cache' = cache
    /\ IF args.app_root = ""
       THEN /\ fresult' = Raised("ValueError")
            /\ fpc' = "done"
       ELSE IF CacheUsable(cache[args.ticker])
       THEN /\ fresult' = RetData(cache[args.ticker].cols, cache[args.ticker].rows, TRUE)
            /\ fpc' = "done"
       ELSE IF args.dates = "inverted"
       THEN /\ fresult' = Raised("ValueError")
            /\ fpc' = "done"
       ELSE /\ fresult' = NoResult
            /\ fpc' = "loop"

FetchCall ==
    /\ \E args \in FetchArgs : CacheCheck(args)
    /\ UNCHANGED outsideFetch

\* The cache write moved before the check of the required columns.
ProcessAndSave_WriteFirst(frame, saveOk) ==
    LET cols == ProcessedColumns(frame) IN
    IF "Date" \notin cols
    THEN /\ fresult' = RetNone
         /\ UNCHANGED <<cache, wrote>>
    ELSE /\ fresult' = IF required \subseteq cols THEN RetData(required, frame.valid, FALSE) ELSE RetNone
         /\ IF saveOk
            THEN /\ cache' = [cache EXCEPT ![fargs.ticker] = CsvFile(cols, frame.valid, FALSE)]
                 /\ wrote' = TRUE
            ELSE UNCHANGED <<cache, wrote>>

\* lines 113-150: processing of a non-empty download, the cache write and
\* the return value
ProcessAndSave(frame, saveOk) ==
    LET cols == ProcessedColumns(frame) IN
    IF "Date" \notin cols
    THEN /\ fresult' = RetNone
         /\ UNCHANGED <<cache, wrote>>
    ELSE IF ~(required \subseteq cols)
    THEN /\ fresult' = RetNone
         /\ UNCHANGED <<cache, wrote>>
    ELSE /\ fresult' = RetData(required, frame.valid, FALSE)
         /\ IF saveOk
            THEN /\ cache' = [cache EXCEPT ![fargs.ticker] = CsvFile(required, frame.valid, FALSE)]
                 /\ wrote' = TRUE
            ELSE UNCHANGED <<cache, wrote>>

\* lines 84-95, 109-150: one iteration of the loop whose download returns
DownloadReturns ==
    /\ fpc = "loop"
    /\ attempt < fargs.max_retries
    /\ \E frame \in Frames, saveOk \in BOOLEAN :
        /\ downloads' = downloads + 1
        /\ dl' = frame
        /\ ferror' = NoError
        /\ fpc' = "done"
        /\ UNCHANGED <<fargs, attempt, waits, outsideFetch>>
        /\ IF Empty(frame)
           THEN /\ fresult' = RetNone
                /\ UNCHANGED <<cache, wrote>>
           ELSE ProcessAndSave(frame, saveOk)

ErrorMessages == {"rate limit exceeded", "429 too many requests", "connection reset"}

\* Every message taken for a rate-limit message.
IsRateLimit_AnyMessage(msg) == TRUE

\* line 98, the messages being lower-cased already
IsRateLimit(msg) == msg \in {"rate limit exceeded", "429 too many requests"}

\* The loop condition off by one: attempt <= max_retries.
DownloadRaises_OffByOne ==
    /\ fpc = "loop"
    /\ attempt <= fargs.max_retries
    /\ \E msg \in ErrorMessages :
        /\ downloads' = downloads + 1
        /\ ferror' = msg
        /\ UNCHANGED <<fargs, cache, wrote, dl, outsideFetch>>
        /\ IF IsRateLimit(msg)
           THEN /\ attempt' = attempt + 1
                /\ waits' = Append(waits, fargs.pause_secs * (attempt + 1))
                /\ UNCHANGED <<fpc, fresult>>
           ELSE /\ fresult' = Raised("download error")
                /\ fpc' = "done"
                /\ UNCHANGED <<attempt, waits>>

\* lines 96-104: one iteration of the loop whose download raises
DownloadRaises ==
    /\ fpc = "loop"
    /\ attempt < fargs.max_retries
    /\ \E msg \in ErrorMessages :
        /\ downloads' = downloads + 1
        /\ ferror' = msg
        /\ UNCHANGED <<fargs, cache, wrote, dl, outsideFetch>>
        /\ IF IsRateLimit(msg)
           THEN /\ attempt' = attempt + 1
                /\ waits' = Append(waits, fargs.pause_secs * (attempt + 1))
                /\ UNCHANGED <<fpc, fresult>>
           ELSE /\ fresult' = Raised("download error")
                /\ fpc' = "done"
                /\ UNCHANGED <<attempt, waits>>

\* lines 84, 105-107: the while condition fails, the else branch returns None
RetriesExhausted ==
    /\ fpc = "loop"
    /\ attempt >= fargs.max_retries
    /\ fresult' = RetNone
    /\ fpc' = "done"
    /\ UNCHANGED <<fargs, cache, wrote, dl, ferror, attempt, downloads, waits, outsideFetch>>

FetchLoop == DownloadReturns \/ DownloadRaises \/ RetriesExhausted

FetchNext == FetchCall \/ DownloadReturns \/ DownloadRaises \/ RetriesExhausted

(***************************************************************************)
(* macro_data.py                                                           *)
(***************************************************************************)
\* line 44: the base columns a cache file must have
required_cols == {"Date", "Interest_Rate", "SP500"}

\* lines 127-133: the columns of the generated dataset
FallbackColumns == required_cols \cup {"Interest_Rate_MA30", "SP500_MA30"}

\* The files that may lie at data_cache/macro_indicators.csv.
MacroCacheFiles ==
    {NoFile, Unreadable,
     CsvFile(required_cols \ {"SP500"}, 1, FALSE),
     CsvFile(FallbackColumns, 0, FALSE)}
    \cup {CsvFile(FallbackColumns, r, TRUE) : r \in 1..MaxRows}
    \cup {CsvFile(FallbackColumns, r, FALSE) : r \in 1..MaxRows}
    \cup {CsvFile(required_cols, r, FALSE) : r \in 1..MaxRows}

\* What pdr.get_data_fred does: it raises, returns an empty frame, returns a
\* frame that lines 95-110 cannot process, or returns rows of which `kept`
\* are left by dropna.
FredOutcomes ==
    {[kind |-> k, rows |-> 0, kept |-> 0] : k \in {"raises", "empty", "unexpected shape"}}
    \cup {[kind |-> "rows", rows |-> r, kept |-> k] : r \in 1..MaxRows, k \in 0..MaxRows}

\* A call of fetch_macro_indicators: its arguments, whether FRED_API_KEY is
\* set, whether the rows of a cache file can be processed (lines 56-68),
\* what FRED does and whether to_csv works.
MacroCalls ==
    [app_root : {"/app", ""}, dates : {"none", "inverted"}, key : BOOLEAN,
     cacheRows : {"processed", "all dropped", "raises"}, fred : FredOutcomes, saveOk : BOOLEAN]

NoMacroCall ==
    [app_root |-> "/app", dates |-> "none", key |-> FALSE, cacheRows |-> "processed",
     fred |-> [kind |-> "raises", rows |-> 0, kept |-> 0], saveOk |-> FALSE]

MacroData(source, cols, rows) == [kind |-> "data", source |-> source, cols |-> cols, rows |-> rows]

\* lines 36-52: the cache file is read and accepted
MacroCacheAccepted(file) ==
    /\ file.kind = "csv"
    /\ required_cols \subseteq file.cols
    /\ file.rows > 0
    /\ ~file.badDates

\* lines 126-134: the generated dataset, one row per day from start_date or
\* 1954-07-01 to end_date or today
Fallback(call) ==
    MacroData("fallback", FallbackColumns, IF call.dates = "inverted" THEN 0 ELSE MaxRows)

\* lines 79-93: the download cannot be done
DownloadFails(call) ==
    \/ ~call.key
    \/ call.fred.kind \in {"raises", "empty", "unexpected shape"}

\* The generated dataset saved like a downloaded one.
fetch_macro_indicators_CachesFallback(file, call) ==
    IF call.app_root = ""
    THEN [result |-> Raised("ValueError"), file |-> file]
    ELSE IF MacroCacheAccepted(file) /\ call.cacheRows # "raises"
    THEN [result |-> MacroData("cache", file.cols \cup FallbackColumns,
                               IF call.cacheRows = "all dropped" THEN 0 ELSE file.rows),
          file |-> file]
    ELSE IF DownloadFails(call)
    THEN [result |-> Fallback(call),
          file |-> IF call.saveOk
                   THEN CsvFile(FallbackColumns, Fallback(call).rows, FALSE) ELSE file]
    ELSE [result |-> MacroData("download", FallbackColumns, call.fred.kept),
          file |-> IF call.saveOk
                   THEN CsvFile(FallbackColumns, call.fred.kept, FALSE) ELSE file]

\* lines 21-134: what the call returns or raises, and the cache file after it
fetch_macro_indicators(file, call) ==
    IF call.app_root = ""
    THEN [result |-> Raised("ValueError"), file |-> file]
    ELSE IF MacroCacheAccepted(file) /\ call.cacheRows # "raises"
    THEN [result |-> MacroData("cache", file.cols \cup FallbackColumns,
                               IF call.cacheRows = "all dropped" THEN 0 ELSE file.rows),
          file |-> file]
    ELSE IF DownloadFails(call)
    THEN [result |-> Fallback(call), file |-> file]
    ELSE [result |-> MacroData("download", FallbackColumns, call.fred.kept),
          file |-> IF call.saveOk
                   THEN CsvFile(FallbackColumns, call.fred.kept, FALSE) ELSE file]

MacroInitWith(files) ==
    /\ mcache \in files
    /\ mcall = NoMacroCall
    /\ mresult = NoResult

\* lines 21-134
MacroCall ==
    /\ \E call \in MacroCalls :
        /\ mcall' = call
        /\ mresult' = fetch_macro_indicators(mcache, call).result
        /\ mcache' = fetch_macro_indicators(mcache, call).file
    /\ UNCHANGED outsideMacro

\* between two calls, macro_indicators.csv is deleted or replaced by hand
MacroCacheChanged ==
    /\ mresult # NoResult
    /\ \E file \in MacroCacheFiles : mcache' = file
    /\ mcall' = NoMacroCall
    /\ mresult' = NoResult
    /\ UNCHANGED outsideMacro

MacroNext == MacroCall \/ MacroCacheChanged

\* pipeline.py lines 47 and 151: what the pipelines, which pass their
\* app_root and no dates, can get from fetch_macro_indicators
MacroOutcomes ==
    {LET r == fetch_macro_indicators(file, call).result
     IN  IF r.kind = "raise" THEN "raise" ELSE IF r.rows = 0 THEN "empty" ELSE "data" :
        file \in MacroCacheFiles,
        call \in {c \in MacroCalls : c.app_root = "/app" /\ c.dates = "none"}}

(***************************************************************************)
(* data_preprocessing.py                                                   *)
(***************************************************************************)
\* line 136: the fewest merged rows accepted
MinMergedRows == 30

\* A dated table: days are numbered, the table has a row for every day from
\* `first` to `last` except those in `missing`, and the values of a row are
\* named by the day it was observed on.
Series(first, last, missing) == [first |-> first, last |-> last, missing |-> missing]

\* A table without rows.
EmptySeries == Series(1, 0, {})

\* df['Date'] of a table
Observed(series) == (series.first .. series.last) \ series.missing

\* The last days of the tables: they give ranges just below and just
\* above MinMergedRows days.
LastDays == (MinMergedRows - 2) .. (MinMergedRows + MaxGap)

\* The stock tables: trading begins on one of the first days and stops for
\* some of the days after them.
StockSeries ==
    {s \in {Series(f, l, g) : f \in 0..MaxGap, l \in LastDays, g \in SUBSET (1..(MaxGap + 1))} :
        s.first \notin s.missing}

\* The macro tables: daily rows from one of the first days on, with or
\* without a gap after the first row, a table of one row and an empty one.
MacroSeries ==
    {Series(f, l, {}) : f \in 0..MaxGap, l \in LastDays}
    \cup {Series(f, l, {f + 1}) : f \in 0..MaxGap, l \in LastDays}
    \cup {Series(0, 0, {}), EmptySeries}

\* min() and max() of a non-empty set of days
Earliest(days) == CHOOSE d \in days : \A e \in days : d <= e
Latest(days) == CHOOSE d \in days : \A e \in days : d >= e

\* An empty cell (NaN, NaT).
NaN == -1

\* lines 104-105: Series.min() and Series.max() of the Date column, NaT for
\* a table without rows
DateMin(series) == IF Observed(series) = {} THEN NaN ELSE Earliest(Observed(series))
DateMax(series) == IF Observed(series) = {} THEN NaN ELSE Latest(Observed(series))

\* lines 104-105: Python's max(a, b) and min(a, b) keep a unless b compares
\* greater (smaller), and every comparison with NaT is false
PyMax(a, b) == IF a # NaN /\ b # NaN /\ b > a THEN b ELSE a
PyMin(a, b) == IF a # NaN /\ b # NaN /\ b < a THEN b ELSE a

\* The fill without .bfill(): the days before the first row stay empty.
Filled_NoBackFill(series, date_range, day) ==
    LET rows == Observed(series) \cap date_range
        earlier == {d \in rows : d <= day}
    IN  IF earlier # {} THEN Latest(earlier) ELSE NaN

\* lines 110-117: set_index('Date').reindex(date_range).ffill().bfill():
\* the row of `day` in the re-indexed table
Filled(series, date_range, day) ==
    LET rows == Observed(series) \cap date_range
        earlier == {d \in rows : d <= day}
        later == {d \in rows : d >= day}
    IN  IF earlier # {} THEN Latest(earlier)
        ELSE IF later # {} THEN Earliest(later)
        ELSE NaN

Merged(rows) == [kind |-> "data", rows |-> rows]

\* lines 92-137: the merged table before the indicators are added, or the
\* exception raised up to there
preprocess_data(stock_df, macro_df, macroFeatures) ==
    LET start_date == PyMax(DateMin(stock_df), DateMin(macro_df))
        end_date == PyMin(DateMax(stock_df), DateMax(macro_df))
    IN  \* pd.date_range accepts no NaT
        IF start_date = NaN \/ end_date = NaN
        THEN Raised("ValueError")
        ELSE LET date_range == start_date .. end_date
                 merged == [day \in date_range |->
                               [stock |-> Filled(stock_df, date_range, day),
                                macro |-> Filled(macro_df, date_range, day)]]
             IN  IF ~macroFeatures THEN Raised("ValueError")
                 ELSE IF Cardinality(date_range) < MinMergedRows THEN Raised("ValueError")
                 ELSE Merged(merged)

\* line 142 and feature_engineering.py line 68: add_technical_indicators
\* ends with dropna(), which drops every row that has an empty cell. The
\* rows dropped because an indicator has no value yet (the first 25 of at
\* least 30) are kept here: they never make the table empty.
add_technical_indicators(merged) ==
    Merged([day \in {d \in DOMAIN merged.rows :
                        merged.rows[d].stock # NaN /\ merged.rows[d].macro # NaN}
               |-> merged.rows[day]])

\* pipeline.py lines 52-54 and 156-158: what the preprocessing step gets
\* from preprocess_data (lines 92-180) for a stock table with rows and the
\* macro table of fetch_macro_indicators, which has the macro features
PreprocessOutcomes ==
    [macroRows \in {"data", "empty"} |->
        {LET merged == preprocess_data(stock_df, macro_df, TRUE)
         IN  IF merged.kind = "raise" THEN merged.exc
             ELSE IF DOMAIN add_technical_indicators(merged).rows = {} THEN "empty"
             ELSE "data" :
            stock_df \in {t \in StockSeries : Observed(t) # {}},
            macro_df \in {t \in MacroSeries : (Observed(t) = {}) <=> (macroRows = "empty")}}]

\* The tables handed to a call that has not run yet.
PrepInitWith(stocks, macros, features) ==
    /\ pstock \in stocks
    /\ pmacro \in macros
    /\ pfeatures \in features
    /\ presult = NoResult

\* pipeline.py lines 52 and 156: preprocess_data is called on the stock
\* table and the macro table; pfeatures tells whether the macro table has
\* the four columns of line 129
Preprocess ==
    /\ presult = NoResult
    /\ presult' = preprocess_data(pstock, pmacro, pfeatures)
    /\ UNCHANGED <<pstock, pmacro, pfeatures, outsidePrep>>

PrepNext == Preprocess

(***************************************************************************)
(* report_generator.py: determine_sentiment                                *)
(***************************************************************************)
\* What dict.get gives for a key the dictionary does not hold: None
Absent == -1000

\* lines 315-340: the score, counted in quarters (1.5 is 6, 1.0 is 4, 0.5 is
\* 2, 0.25 is 1).  A comparison with NaN is false; the buffer of the
\* crossover, 0.5 percent, is compared in thousandths.
SentimentScore(detailed_ta_data, overall_pct_change) ==
    LET current_price == detailed_ta_data.Current_Price
        sma_50 == detailed_ta_data.SMA_50
        sma_200 == detailed_ta_data.SMA_200
        rsi == detailed_ta_data.RSI_14
        macd_hist == detailed_ta_data.MACD_Hist
        gt(a, b) == a # NaN /\ b # NaN /\ a > b
        trend == IF overall_pct_change > 5 THEN 6
                 ELSE IF overall_pct_change > 1 THEN 2
                 ELSE IF overall_pct_change < -5 THEN -6
                 ELSE IF overall_pct_change < -1 THEN -2
                 ELSE 0
        vs50 == IF sma_50 # Absent /\ gt(current_price, sma_50) THEN 2
                ELSE IF sma_50 # Absent /\ gt(sma_50, current_price) THEN -2
                ELSE 0
        vs200 == IF sma_200 # Absent /\ gt(current_price, sma_200) THEN 4
                 ELSE IF sma_200 # Absent /\ gt(sma_200, current_price) THEN -4
                 ELSE 0
        cross == IF sma_50 # Absent /\ sma_200 # Absent /\ sma_50 # NaN /\ sma_200 # NaN
                 THEN IF sma_50 * 1000 > sma_200 * 1005 THEN 2
                      ELSE IF sma_50 * 1000 < sma_200 * 995 THEN -2
                      ELSE 0
                 ELSE 0
        level == IF rsi # Absent /\ rsi # NaN
                 THEN IF rsi > 68 THEN -1 ELSE IF rsi < 32 THEN 1 ELSE 0
                 ELSE 0
        hist == IF macd_hist # Absent /\ macd_hist # NaN
                THEN IF macd_hist > 0 THEN 1 ELSE -1
                ELSE 0
    IN  trend + vs50 + vs200 + cross + level + hist

\* lines 343-347: the label of a score in quarters
SentimentLabel_StrictBullish(score) ==
    IF score > 10 THEN "Strong Bullish"
    ELSE IF score >= 4 THEN "Bullish"
    ELSE IF score <= -10 THEN "Strong Bearish"
    ELSE IF score <= -4 THEN "Bearish"
    ELSE "Neutral"

SentimentLabel(score) ==
    IF score >= 10 THEN "Strong Bullish"
    ELSE IF score >= 4 THEN "Bullish"
    ELSE IF score <= -10 THEN "Strong Bearish"
    ELSE IF score <= -4 THEN "Bearish"
    ELSE "Neutral"

\* lines 305-348
determine_sentiment(detailed_ta_data, overall_pct_change) ==
    IF detailed_ta_data.Current_Price = Absent THEN "N/A"
    ELSE SentimentLabel(SentimentScore(detailed_ta_data, overall_pct_change))

\* No call has returned yet.
NoLabel == ""

\* The arguments of a call that has not run yet.
SentimentInitWith(datas, changes) ==
    /\ sdata \in datas
    /\ spct \in changes
    /\ slabel = NoLabel

\* line 541: generate_report calls determine_sentiment on the indicator
\* values and the forecast change
Sentiment ==
    /\ slabel = NoLabel
    /\ slabel' = determine_sentiment(sdata, spct)
    /\ UNCHANGED <<sdata, spct, outsideSent>>

SentimentNext == Sentiment

(***************************************************************************)
(* app.py: /generate requests handled by the threads of the server         *)
(***************************************************************************)
\* app.py line 222: threaded=True, each request is handled by a thread of
\* its own; two of them are followed
Threads == {1, 2}

\* A thread that handles no request.
NotInFlight == [pc |-> "idle", ticker |-> "", wp |-> FALSE, ts |-> -1]

\* The file a step of a request writes.  data_collection.py lines 38-39 and
\* 144: the stock cache file is named by the ticker alone; pipeline.py lines
\* 55-56 and 159-160, report_generator.py lines 859-863 and app.py lines
\* 87-90: the processed CSV and the report are named by ticker and timestamp
OutputFile(req) ==
    CASE req.pc = "download" ->
            [dir |-> "data_cache", ticker |-> req.ticker, kind |-> "stock_data", ts |-> -1]
      [] req.pc = "processed" ->
            [dir |-> "static", ticker |-> req.ticker,
             kind |-> IF req.wp THEN "wp_processed" ELSE "processed", ts |-> req.ts]
      [] req.pc = "report" ->
            [dir |-> "static", ticker |-> req.ticker,
             kind |-> IF req.wp THEN "wp_asset" ELSE "detailed_report", ts |-> req.ts]

\* The state of the server with the given cache files and no request.
FilesInitWith(caches) ==
    /\ clock = 0
    /\ threads = [t \in Threads |-> NotInFlight]
    /\ stockCaches \in caches
    /\ written = {}

\* time.time() reaches the next second
Tick ==
    /\ clock < MaxSecond
    /\ clock' = clock + 1
    /\ UNCHANGED <<threads, stockCaches, written, outsideFiles>>

\* app.py lines 52-85 and 101-103: a valid request is taken by a thread,
\* which reads the timestamp and calls the pipeline of the site
Accepts(t) ==
    /\ threads[t].pc = "idle"
    /\ \E ticker \in {"A", "B"}, wp \in BOOLEAN :
          threads' = [threads EXCEPT ![t] = [pc |-> "stock", ticker |-> ticker, wp |-> wp,
                                             ts |-> clock]]
    /\ UNCHANGED <<clock, stockCaches, written, outsideFiles>>

\* data_collection.py lines 41-61: the cache file of the ticker is used when
\* it is there; lines 84-111: else the data is downloaded
ChecksStockCache(t) ==
    /\ threads[t].pc = "stock"
    /\ threads' = [threads EXCEPT ![t].pc = IF threads[t].ticker \in stockCaches
                                            THEN "processed" ELSE "download"]
    /\ UNCHANGED <<clock, stockCaches, written, outsideFiles>>

\* data_collection.py line 144, pipeline.py lines 55-56 and 159-160,
\* report_generator.py lines 859-863 and app.py lines 87-90: the request
\* writes the file of its step and goes on
WritesFile(t) ==
    /\ threads[t].pc \in {"download", "processed", "report"}
    /\ written' = written \cup {[file |-> OutputFile(threads[t]), by |-> t]}
    /\ stockCaches' = IF threads[t].pc = "download"
                      THEN stockCaches \cup {threads[t].ticker} ELSE stockCaches
    /\ threads' = [threads EXCEPT ![t].pc = CASE @ = "download" -> "processed"
                                              [] @ = "processed" -> "report"
                                              [] @ = "report" -> "respond"]
    /\ UNCHANGED <<clock, outsideFiles>>

\* pipeline.py lines 107-118 and 219-230: a step of the pipeline raises and
\* the pipeline returns four None
Aborts(t) ==
    /\ threads[t].pc \in {"stock", "download", "processed", "report"}
    /\ threads' = [threads EXCEPT ![t].pc = "respond"]
    /\ UNCHANGED <<clock, stockCaches, written, outsideFiles>>

\* app.py lines 99, 120, 126-134: the response is returned and the request
\* is no longer in flight
Answers(t) ==
    /\ threads[t].pc = "respond"
    /\ threads' = [threads EXCEPT ![t] = NotInFlight]
    /\ written' = {w \in written : w.by # t}
    /\ UNCHANGED <<clock, stockCaches, outsideFiles>>

FilesNext ==
    \/ Tick
    \/ \E t \in Threads : Accepts(t) \/ ChecksStockCache(t) \/ WritesFile(t) \/ Aborts(t) \/ Answers(t)

(***************************************************************************)
(* Strings: a string is the sequence of its characters                     *)
(***************************************************************************)
\* str.upper() on one character
UpperChar(c) == CASE c = "a" -> "A" [] c = "b" -> "B" [] OTHER -> c

\* str.upper()
Upper(str) == [i \in 1..Len(str) |-> UpperChar(str[i])]

Whitespace == {" ", "\n"}

RECURSIVE LStrip(_)
LStrip(str) ==
    IF str # <<>> /\ Head(str) \in Whitespace THEN LStrip(Tail(str)) ELSE str

RECURSIVE RStrip(_)
RStrip(str) ==
    IF str # <<>> /\ str[Len(str)] \in Whitespace THEN RStrip(SubSeq(str, 1, Len(str) - 1)) ELSE str

\* str.strip()
Strip(str) == LStrip(RStrip(str))

RECURSIVE FirstWord(_)
\* item.split(' ')[0]
FirstWord(str) ==
    IF str = <<>> \/ Head(str) = " " THEN <<>> ELSE <<Head(str)>> \o FirstWord(Tail(str))

\* membership in a sequence: t in list
InList(t, list) == \E i \in 1..Len(list) : list[i] = t

\* A variable that holds None or a str: Python's None, and a str with its
\* text as a sequence of pieces
None == [isNone |-> TRUE, text |-> <<>>]
Str(text) == [isNone |-> FALSE, text |-> text]

\* bool(value): None and '' are false
Truthy(value) == ~value.isNone /\ value.text # <<>>

\* The text whose presence marks error HTML; it is one piece of a text.
Marker == "Error Generating Report"

\* "Error Generating Report" in html
ContainsMarker(html) == \E i \in 1..Len(html.text) : html.text[i] = Marker

(***************************************************************************)
(* What the pipelines and the report generators hand to their callers      *)
(***************************************************************************)
\* What a pipeline returns: (model, forecast, report_path, report_html) or
\* (model, forecast, html, chart path)
FourNone == [kind |-> "tuple", path |-> None, html |-> None]
PipelineResult(path, html) == [kind |-> "tuple", path |-> path, html |-> html]

\* The call ended with an exception that left the pipeline.
PipelineRaised == [kind |-> "raise", path |-> None, html |-> None]
NotReturned == [kind |-> "pending", path |-> None, html |-> None]

\* report_generator.py lines 843-867 and 1084-1090: the document that is
\* built when nothing fails
FullHtml(ticker) == Str(<<"<html>">> \o ticker \o <<" Stock Analysis Report", "</html>">>)
HtmlFragment(ticker) == Str(<<"<div class=\"report-container\">">> \o ticker \o <<"</div>">>)

\* report_generator.py lines 871-878 and 1096-1103: the HTML returned from
\* the two except clauses
ErrorHtml(exc, ticker) ==
    Str((IF exc = "ValueError" THEN <<"<h2>">> ELSE <<"<h2>", "Unexpected ">>)
        \o <<Marker, " for ">> \o ticker \o <<"</h2>">>)

\* report_generator.py lines 869-870: <ticker>_detailed_report_<ts>.html
ReportPath(ticker) == Str(<<"static/">> \o ticker \o <<"_detailed_report.html">>)
\* report_generator.py lines 902, 1016-1030: the saved forecast chart
ChartPath(ticker) == Str(<<"temp_wp_images/">> \o ticker \o <<"_forecast.png">>)

(***************************************************************************)
(* auto_publisher.py                                                       *)
(***************************************************************************)
DailyLimit == 15

\* lines 175-179: neither the process nor its state file counts the posts of
\* a date over the runs of the process; no such count is kept.
Uncounted == -1

\* line 350-351: one more post on this date; the count stops one above the
\* daily limit
CountPost(count, published) ==
    IF published /\ count # Uncounted /\ count <= DailyLimit THEN count + 1 ELSE count

\* An environment value for int(): the text is a numeral or it is not.
Numeral(n) == [numeral |-> TRUE, val |-> n]
NotANumber == [numeral |-> FALSE, val |-> 0]

IntervalStrings == {NotANumber, Numeral(-1), Numeral(0), Numeral(1), Numeral(2), Numeral(3)}

DefaultEnv == [min |-> Numeral(1), max |-> Numeral(2)]

\* The test for positive values applied to the maximum only.
ParseIntervals_MinNotTested(e) ==
    IF ~e.min.numeral \/ ~e.max.numeral
    THEN [min |-> 1, max |-> 2]
    ELSE IF e.max.val <= 0
    THEN [min |-> 1, max |-> 2]
    ELSE IF e.min.val > e.max.val
    THEN [min |-> 1, max |-> 2]
    ELSE [min |-> e.min.val, max |-> e.max.val]

\* lines 56-67
ParseIntervals(e) ==
    IF ~e.min.numeral \/ ~e.max.numeral
    THEN [min |-> 1, max |-> 2]
    ELSE IF e.min.val <= 0 \/ e.max.val <= 0
    THEN [min |-> 1, max |-> 2]
    ELSE IF e.min.val > e.max.val
    THEN [min |-> 1, max |-> 2]
    ELSE [min |-> e.min.val, max |-> e.max.val]

\* line 120: re.sub(r'[^A-Z0-9.-]', '', symbol_candidate)
ExcelClass == {"A", "B", "1", ".", "-"}

CleanSymbol(str) == SelectSeq(str, LAMBDA c : c \in ExcelClass)

\* lines 118-120
SymbolCandidate(item) == CleanSymbol(Upper(FirstWord(item)))

RECURSIVE CollectAll(_, _)
\* The loop without the seen_tickers test: duplicates are kept.
CollectAll(raw_entries, acc) ==
    IF raw_entries = <<>> THEN acc
    ELSE LET sym == SymbolCandidate(Head(raw_entries)) IN
         CollectAll(Tail(raw_entries),
                    IF Head(raw_entries) # <<>> /\ sym # <<>>
                    THEN Append(acc, sym) ELSE acc)

RECURSIVE CollectUnique(_, _)
\* lines 114-123: the loop over raw_entries
CollectUnique(raw_entries, acc) ==
    IF raw_entries = <<>> THEN acc
    ELSE LET sym == SymbolCandidate(Head(raw_entries)) IN
         CollectUnique(Tail(raw_entries),
                       IF Head(raw_entries) # <<>> /\ sym # <<>> /\ ~InList(sym, acc)
                       THEN Append(acc, sym) ELSE acc)

\* The list built without the seen_tickers test.
load_tickers_from_excel_NoDedup(raw_entries) == CollectAll(raw_entries, <<>>)

\* lines 105-128, the entries being the stripped cells of the column
load_tickers_from_excel(raw_entries) == CollectUnique(raw_entries, <<>>)

\* lines 77-82: a writer entry
Writer(name, id) == [username |-> name, app_password |-> "secret", wp_user_id |-> id]

\* The installations the publisher runs in: the WRITER_i_* entries of the
\* environment and the stripped cells of the ticker column of the Excel file.
Deployments ==
    { [writers |-> << Writer("w1", 1) >>,
       excel |-> << <<"A">>, <<"b", "$">>, <<"1">> >>],
      [writers |-> << Writer("w1", 1), Writer("w2", 2) >>,
       excel |-> << <<"$">>, <<"B">> >>],
      [writers |-> << Writer("w1", 1), Writer("w2", 2), Writer("w1", 1) >>,
       excel |-> << <<"a", " ", "b">>, <<"B">>, <<"A">> >>] }

Missing == [kind |-> "missing"]
Corrupt == [kind |-> "corrupt"]

\* lines 175-179: the pickled dictionary
StateDict(pending, idx, failed) ==
    [kind |-> "dict", pending_tickers |-> pending, last_writer_index |-> idx,
     failed_tickers_retry_later |-> failed]

MemState(pending, idx, failed) ==
    [pending_tickers |-> pending, last_writer_index |-> idx, failed_tickers_retry_later |-> failed]

\* lines 136-140
default_state(master) == MemState(master, -1, <<>>)

\* lines 159-161 (the index is an int in every file save_state writes)
ValidIndex(idx, nWriters) == ~(idx >= nWriters \/ idx < -1)

\* The retry list not read back from the file.
load_state_DropsRetryList(file, master, nWriters) ==
    IF file.kind # "dict" THEN default_state(master)
    ELSE LET kept == SelectSeq(file.pending_tickers, LAMBDA t : InList(t, master)) IN
         MemState(IF kept = <<>> /\ master # <<>> THEN master ELSE kept,
                  IF ValidIndex(file.last_writer_index, nWriters) THEN file.last_writer_index ELSE -1,
                  <<>>)

\* lines 135-169
load_state(file, master, nWriters) ==
    IF file.kind # "dict" THEN default_state(master)
    ELSE LET kept == SelectSeq(file.pending_tickers, LAMBDA t : InList(t, master)) IN
         MemState(IF kept = <<>> /\ master # <<>> THEN master ELSE kept,
                  IF ValidIndex(file.last_writer_index, nWriters) THEN file.last_writer_index ELSE -1,
                  SelectSeq(file.failed_tickers_retry_later, LAMBDA t : InList(t, master)))

\* lines 171-182: the file after save_state; open(STATE_FILE, 'wb') empties
\* the file, so a write that fails leaves a file that cannot be loaded
save_state(file, pending, idx, failed, outcome) ==
    CASE outcome = "saved" -> StateDict(pending, idx, failed)
      [] outcome = "dump failed" -> Corrupt

SaveOutcomes == {"saved", "dump failed"}

\* line 191
writer_start_offset(idx, nWriters) == (idx + 1) % nWriters

RECURSIVE IndexFrom(_, _, _)
IndexFrom(list, x, i) == IF list[i] = x THEN i ELSE IndexFrom(list, x, i + 1)

\* line 328: WRITERS_CONFIG.index(selected_writer_info), 0-based
IndexOf(list, x) == IndexFrom(list, x, 1) - 1

NoTime == -1

\* A job of the schedule module: job objects are compared by identity.
ScheduledJob(id, minutes) == [id |-> id, minutes |-> minutes]

FreshId(jobset) == CHOOSE i \in 0..Cardinality(jobset) : \A j \in jobset : j.id # i

NoJob == [kind |-> "none", ticker |-> <<>>, writer |-> -1, pipeline |-> "not run", published |-> FALSE, save |-> "not saved",
          wp_request |-> FALSE]

NoneProcessed == [writer |-> -1, saved |-> FALSE]

\* lines 201-218: what run_wp_pipeline gave get_report_html_and_chart
PipelineOutcomes == {"html", "no html", "error html", "raised"}

\* line 207: the value the call of run_wp_pipeline gives, or its exception;
\* the tuple is (model, forecast, html_output, forecast_chart_filepath)
PipelineReturn(outcome, ticker) ==
    CASE outcome = "html" -> PipelineResult(ChartPath(ticker), HtmlFragment(ticker))
      [] outcome = "no html" -> FourNone
      [] outcome = "error html" -> PipelineResult(None, ErrorHtml("Exception", ticker))
      [] outcome = "raised" -> PipelineRaised

\* The HTML kept whenever the pipeline returned some.
get_report_html_and_chart_NoMarkerTest(result) ==
    IF result.kind = "raise" THEN [report_html |-> None, forecast_chart_file |-> None]
    ELSE IF Truthy(result.html)
    THEN [report_html |-> result.html, forecast_chart_file |-> result.path]
    ELSE [report_html |-> None, forecast_chart_file |-> None]

\* lines 201-218: report_html is kept only when it is real report HTML
get_report_html_and_chart(result) ==
    IF result.kind = "raise" THEN [report_html |-> None, forecast_chart_file |-> None]
    ELSE IF Truthy(result.html) /\ ~ContainsMarker(result.html)
    THEN [report_html |-> result.html, forecast_chart_file |-> result.path]
    ELSE [report_html |-> None, forecast_chart_file |-> None]

PubInitWith(e, writers, excel, file) ==
    /\ env = e
    /\ MIN_INTERVAL_MINUTES = ParseIntervals(e).min
    /\ MAX_INTERVAL_MINUTES = ParseIntervals(e).max
    /\ WRITERS_CONFIG = writers
    /\ MASTER_TICKERS_LIST = load_tickers_from_excel(excel)
    /\ MASTER_TICKERS_LIST # <<>>
    /\ LET st == load_state(file, MASTER_TICKERS_LIST, Len(writers)) IN
        /\ pending_tickers = st.pending_tickers
        /\ last_writer_idx_processed = st.last_writer_index
        /\ failed_tickers = st.failed_tickers_retry_later
        /\ writer_iterator = writer_start_offset(st.last_writer_index, Len(writers))
    /\ posts_published_today = 0
    /\ last_publish_time = NoTime
    /\ today = 0
    /\ stateFile = file
    /\ \E d \in ParseIntervals(e).min .. ParseIntervals(e).max : jobs = {ScheduledJob(0, d)}
    /\ lastJob = NoJob
    /\ lastProcessed = NoneProcessed
    /\ pass = [from |-> "master", log |-> <<>>]
    /\ roundTrip = "loaded"

JobRecord(kind, ticker, writer, pipeline, wp_request, published, save) ==
    [kind |-> kind, ticker |-> ticker, writer |-> writer, pipeline |-> pipeline,
     published |-> published, save |-> save, wp_request |-> wp_request]

\* lines 370-379 and the schedule module: clear() drops every job, every().do()
\* adds a new one, and the CancelJob result makes the scheduler remove the
\* job that has just run, if it still holds it
Reschedule(running, minutes) ==
    LET cleared == {}
        added == cleared \cup {ScheduledJob(FreshId({running}), minutes)}
    IN  added \ {running}

\* The failed ticker not put on the retry list.
AddFailed_Dropped(failed, ticker) == failed

\* lines 357-358 and 362-363
AddFailed(failed, ticker) == IF InList(ticker, failed) THEN failed ELSE Append(failed, ticker)

\* lines 296-302: the job returns at the daily limit
JobSkipsAtLimit(posts) ==
    /\ posts_published_today' = posts
    /\ lastJob' = JobRecord("limit", <<>>, -1, "not run", FALSE, FALSE, "not saved")
    /\ UNCHANGED <<pending_tickers, failed_tickers, last_writer_idx_processed, writer_iterator,
                   last_publish_time, published_on_date, stateFile, lastProcessed, pass,
                   roundTrip>>

\* lines 314-317: nothing to process after the refill
JobFindsNothing(posts, pending, failed, saveOutcome) ==
    /\ posts_published_today' = posts
    /\ pending_tickers' = pending
    /\ failed_tickers' = failed
    /\ stateFile' = save_state(stateFile, pending, last_writer_idx_processed, failed, saveOutcome)
    /\ lastJob' = JobRecord("empty", <<>>, -1, "not run", FALSE, FALSE, saveOutcome)
    /\ roundTrip' = "saved"
    /\ UNCHANGED <<last_writer_idx_processed, writer_iterator, last_publish_time,
                   published_on_date, lastProcessed, pass>>

\* The state saved before the index of the writer is updated.
JobProcesses_StaleIndex(posts, pending, failed, refill, fromMaster, pipeline, publishOk, saveOutcome) ==
    LET selected_ticker_to_process == Head(pending)
        selected_writer_info == WRITERS_CONFIG[writer_iterator + 1]
        current_writer_original_index == IndexOf(WRITERS_CONFIG, selected_writer_info)
        report_html == get_report_html_and_chart(
                           PipelineReturn(pipeline, selected_ticker_to_process)).report_html
    IN  \* line 347: publish_to_wordpress is called when report_html is true
        \E wp_request \in {Truthy(report_html)} :
        \E published \in {wp_request /\ publishOk} :
        LET failedAfter == IF published THEN failed
                           ELSE AddFailed(failed, selected_ticker_to_process) IN
        /\ writer_iterator' = (writer_iterator + 1) % Len(WRITERS_CONFIG)
        /\ pending_tickers' = Tail(pending)
        /\ failed_tickers' = failedAfter
        /\ posts_published_today' = IF published THEN posts + 1 ELSE posts
        /\ last_publish_time' = IF published THEN today ELSE last_publish_time
        /\ published_on_date' = CountPost(published_on_date, published)
        /\ last_writer_idx_processed' = current_writer_original_index
        /\ stateFile' = save_state(stateFile, Tail(pending), last_writer_idx_processed,
                                   failedAfter, saveOutcome)
        /\ lastJob' = JobRecord("processed", selected_ticker_to_process, writer_iterator,
                                pipeline, wp_request, published, saveOutcome)
        /\ lastProcessed' = [writer |-> writer_iterator, saved |-> saveOutcome = "saved"]
        /\ roundTrip' = "saved"
        /\ pass' = IF refill
                   THEN [from |-> IF fromMaster THEN "master" ELSE "retry list",
                         log |-> <<selected_ticker_to_process>>]
                   ELSE [pass EXCEPT !.log = Append(@, selected_ticker_to_process)]

\* lines 324-367: the job processes the ticker at the head of the pending list
JobProcesses(posts, pending, failed, refill, fromMaster, pipeline, publishOk, saveOutcome) ==
    LET selected_ticker_to_process == Head(pending)
        selected_writer_info == WRITERS_CONFIG[writer_iterator + 1]
        current_writer_original_index == IndexOf(WRITERS_CONFIG, selected_writer_info)
        report_html == get_report_html_and_chart(
                           PipelineReturn(pipeline, selected_ticker_to_process)).report_html
    IN  \* line 347: publish_to_wordpress is called when report_html is true
        \E wp_request \in {Truthy(report_html)} :
        \E published \in {wp_request /\ publishOk} :
        LET failedAfter == IF published THEN failed
                           ELSE AddFailed(failed, selected_ticker_to_process) IN
        /\ writer_iterator' = (writer_iterator + 1) % Len(WRITERS_CONFIG)
        /\ pending_tickers' = Tail(pending)
        /\ failed_tickers' = failedAfter
        /\ posts_published_today' = IF published THEN posts + 1 ELSE posts
        /\ last_publish_time' = IF published THEN today ELSE last_publish_time
        /\ published_on_date' = CountPost(published_on_date, published)
        /\ last_writer_idx_processed' = current_writer_original_index
        /\ stateFile' = save_state(stateFile, Tail(pending), current_writer_original_index,
                                   failedAfter, saveOutcome)
        /\ lastJob' = JobRecord("processed", selected_ticker_to_process, writer_iterator,
                                pipeline, wp_request, published, saveOutcome)
        /\ lastProcessed' = [writer |-> writer_iterator, saved |-> saveOutcome = "saved"]
        /\ roundTrip' = "saved"
        /\ pass' = IF refill
                   THEN [from |-> IF fromMaster THEN "master" ELSE "retry list",
                         log |-> <<selected_ticker_to_process>>]
                   ELSE [pass EXCEPT !.log = Append(@, selected_ticker_to_process)]

\* The counter left as it is on a new day.
CounterAtLimitCheck_NoReset(posts, last, now) == posts

\* lines 296-298: the counter the limit check of line 300 reads, `last` being
\* the date of last_publish_time and `now` the date of current_time
CounterAtLimitCheck(posts, last, now) == IF last # NoTime /\ last # now THEN 0 ELSE posts

\* An empty pending list always refilled from the master list.
RefillPending_MasterFirst(pending, failed, master) ==
    IF pending # <<>> THEN [pending |-> pending, failed |-> failed]
    ELSE [pending |-> master, failed |-> failed]

\* lines 304-312: the pending list and the retry list after the refill
RefillPending(pending, failed, master) ==
    IF pending # <<>> THEN [pending |-> pending, failed |-> failed]
    ELSE IF failed # <<>> THEN [pending |-> failed, failed |-> <<>>]
    ELSE [pending |-> master, failed |-> failed]

\* The limit test with > in place of >=.
job_LimitOffByOne(pipeline, publishOk, saveOutcome) ==
    LET posts == CounterAtLimitCheck(posts_published_today, last_publish_time, today)
    IN  IF posts > DailyLimit
        THEN JobSkipsAtLimit(posts)
        ELSE LET refill == pending_tickers = <<>>
                 fromMaster == refill /\ failed_tickers = <<>>
                 lists == RefillPending(pending_tickers, failed_tickers, MASTER_TICKERS_LIST)
             IN  IF lists.pending = <<>>
                 THEN JobFindsNothing(posts, lists.pending, lists.failed, saveOutcome)
                 ELSE JobProcesses(posts, lists.pending, lists.failed, refill, fromMaster,
                                   pipeline, publishOk, saveOutcome)

\* lines 291-367
job(pipeline, publishOk, saveOutcome) ==
    LET posts == CounterAtLimitCheck(posts_published_today, last_publish_time, today)
    IN  IF posts >= DailyLimit
        THEN JobSkipsAtLimit(posts)
        ELSE LET refill == pending_tickers = <<>>
                 fromMaster == refill /\ failed_tickers = <<>>
                 lists == RefillPending(pending_tickers, failed_tickers, MASTER_TICKERS_LIST)
             IN  IF lists.pending = <<>>
                 THEN JobFindsNothing(posts, lists.pending, lists.failed, saveOutcome)
                 ELSE JobProcesses(posts, lists.pending, lists.failed, refill, fromMaster,
                                   pipeline, publishOk, saveOutcome)

\* lines 376-379: a due job runs job() and schedules the next one
run_job_and_reschedule ==
    \E running \in jobs, pipeline \in PipelineOutcomes, publishOk \in BOOLEAN,
       saveOutcome \in SaveOutcomes, minutes \in MIN_INTERVAL_MINUTES..MAX_INTERVAL_MINUTES :
        /\ job(pipeline, publishOk, saveOutcome)
        /\ jobs' = Reschedule(running, minutes)
        /\ UNCHANGED <<env, MIN_INTERVAL_MINUTES, MAX_INTERVAL_MINUTES, WRITERS_CONFIG,
                       MASTER_TICKERS_LIST, today, outsidePub>>

\* line 294: the date of datetime.now() moves on
Midnight ==
    /\ today < MaxDay
    /\ today' = today + 1
    /\ published_on_date' = IF published_on_date = Uncounted THEN Uncounted ELSE 0
    /\ UNCHANGED <<env, MIN_INTERVAL_MINUTES, MAX_INTERVAL_MINUTES, WRITERS_CONFIG,
                   MASTER_TICKERS_LIST, pending_tickers, failed_tickers,
                   last_writer_idx_processed, writer_iterator, posts_published_today,
                   last_publish_time, stateFile, jobs, lastJob, lastProcessed, pass, roundTrip,
                   outsidePub>>

\* lines 34-198, 394-395: the process is stopped between two jobs and started
\* again with the same environment and Excel file
Restart ==
    LET st == load_state(stateFile, MASTER_TICKERS_LIST, Len(WRITERS_CONFIG)) IN
    /\ MIN_INTERVAL_MINUTES' = ParseIntervals(env).min
    /\ MAX_INTERVAL_MINUTES' = ParseIntervals(env).max
    /\ pending_tickers' = st.pending_tickers
    /\ last_writer_idx_processed' = st.last_writer_index
    /\ failed_tickers' = st.failed_tickers_retry_later
    /\ writer_iterator' = writer_start_offset(st.last_writer_index, Len(WRITERS_CONFIG))
    /\ posts_published_today' = 0
    /\ last_publish_time' = NoTime
    /\ \E d \in ParseIntervals(env).min .. ParseIntervals(env).max : jobs' = {ScheduledJob(0, d)}
    /\ lastJob' = NoJob
    /\ roundTrip' = "loaded"
    /\ lastProcessed' = IF lastProcessed.saved THEN lastProcessed ELSE NoneProcessed
    /\ pass' = IF st.pending_tickers = MASTER_TICKERS_LIST /\ st.failed_tickers_retry_later = <<>>
               THEN [from |-> "master", log |-> <<>>]
               ELSE [from |-> "state file", log |-> <<>>]
    /\ UNCHANGED <<env, WRITERS_CONFIG, MASTER_TICKERS_LIST, published_on_date, today, stateFile,
                   outsidePub>>

PubNext == run_job_and_reschedule \/ Midnight \/ Restart

\* The tickers a state handed to save_state may hold: those of the master
\* list <<A, B>> and one that is not in it.
StateTickers == {<<"A">>, <<"B">>, <<"X">>}

TickerLists == UNION {[1..n -> StateTickers] : n \in 0..MaxListLen}

\* lines 171-182: save_state called on the state in memory
SaveState ==
    \E outcome \in SaveOutcomes :
        /\ stateFile' = save_state(stateFile, pending_tickers, last_writer_idx_processed,
                                   failed_tickers, outcome)
        /\ roundTrip' = "saved"
        /\ UNCHANGED <<env, MIN_INTERVAL_MINUTES, MAX_INTERVAL_MINUTES, WRITERS_CONFIG,
                       MASTER_TICKERS_LIST, pending_tickers, failed_tickers,
                       last_writer_idx_processed, writer_iterator, posts_published_today,
                       last_publish_time, published_on_date, today, jobs, lastJob, lastProcessed,
                   pass, outsidePub>>

\* lines 185-193: load_state at the start of the process
LoadState ==
    LET st == load_state(stateFile, MASTER_TICKERS_LIST, Len(WRITERS_CONFIG)) IN
    /\ pending_tickers' = st.pending_tickers
    /\ last_writer_idx_processed' = st.last_writer_index
    /\ failed_tickers' = st.failed_tickers_retry_later
    /\ writer_iterator' = writer_start_offset(st.last_writer_index, Len(WRITERS_CONFIG))
    /\ roundTrip' = "loaded"
    /\ UNCHANGED <<env, MIN_INTERVAL_MINUTES, MAX_INTERVAL_MINUTES, WRITERS_CONFIG,
                   MASTER_TICKERS_LIST, posts_published_today, last_publish_time,
                   published_on_date, today, stateFile, jobs, lastJob, lastProcessed, pass,
                   outsidePub>>

\* the state file is deleted
RemoveStateFile ==
    /\ stateFile # Missing
    /\ stateFile' = Missing
    /\ roundTrip' = "removed"
    /\ UNCHANGED <<env, MIN_INTERVAL_MINUTES, MAX_INTERVAL_MINUTES, WRITERS_CONFIG,
                   MASTER_TICKERS_LIST, pending_tickers, failed_tickers,
                   last_writer_idx_processed, writer_iterator, posts_published_today,
                   last_publish_time, published_on_date, today, jobs, lastJob, lastProcessed,
                   pass, outsidePub>>

StateNext == SaveState \/ LoadState \/ RemoveStateFile

(***************************************************************************)
(* app.py and pipeline.py                                                  *)
(***************************************************************************)
\* The character class of valid_ticker_pattern, [A-Z0-9\^.-]
TickerClass == {"A", "B", "1", "^", ".", "-"}

\* re.match(r'^[A-Z0-9\^.-]+$', ticker): one or more characters of the
\* class up to the end of the string, where $ also matches just before a
\* newline that ends the string
MatchesTickerPattern(str) ==
    LET body == IF str # <<>> /\ str[Len(str)] = "\n" THEN SubSeq(str, 1, Len(str) - 1) ELSE str
    IN  /\ body # <<>>
        /\ \A i \in 1..Len(body) : body[i] \in TickerClass

\* The JSON values under a key of the request: a string, or a value that
\* is not a string (a number, null, a list) and has no strip method.
JsonString(text) == [type |-> "string", text |-> text]
NotAString == [type |-> "number", text |-> <<>>]

\* The ticker texts sent to the routes or handed to the pipelines.
TickerTexts ==
    { <<>>, <<" ">>, <<"a">>, <<"A", "1">>, <<" ", "b", "\n">>, <<"A", "$">>,
      <<"^", "A">>, <<"B", "\n">>, <<"-", ".">>, <<"a", " ", "b">> }

Moneystockers == <<"m", "o", "n", "e", "y", "s", "t", "o", "c", "k", "e", "r", "s">>
SiteNames == { <<>>, Moneystockers, <<"o">>, <<" ">> \o Moneystockers \o <<" ">> }

\* A POST request: whether its Content-Type is JSON (request.is_json), what
\* its body parses to, and the values under 'ticker' and 'site_name' when it
\* parses to an object (a missing key reads as '').
Requests ==
    [is_json : BOOLEAN, body : {"object"},
     ticker : {JsonString(t) : t \in TickerTexts} \cup {NotAString},
     site_name : {JsonString(n) : n \in SiteNames} \cup {NotAString}]
    \cup [is_json : BOOLEAN, body : {"malformed", "list"},
          ticker : {JsonString(<<>>)}, site_name : {JsonString(<<>>)}]

NoRequest ==
    [is_json |-> FALSE, body |-> "none", ticker |-> JsonString(<<>>), site_name |-> JsonString(<<>>)]

Response(code, status, url) == [code |-> code, status |-> status, viewer_url |-> url]
NoResponse == Response(0, "none", "none")

\* The answer Flask gives for an exception the view does not catch
\* (HTTP 500) and for the BadRequest that get_json raises on a body that
\* does not parse (HTTP 400): an error page, not the JSON of the view.
FrameworkError(code) == Response(code, "none", "none")

\* What can happen inside a report generator: everything works and the
\* file (or chart image) is saved, everything works but the file (or chart)
\* cannot be saved, preparation or rendering raises ValueError, or it
\* raises another exception.
ReportOutcomes == {"saved", "not saved", "ValueError", "Exception"}

\* What a report generator hands back: the two values it returns and the
\* content it wrote to the report file in static, None if it wrote none.
Generated(outcome, path, html, content) ==
    [outcome |-> outcome, path |-> path, html |-> html, wrote |-> content]
NotGenerated == Generated("not called", None, None, None)

\* report_generator.py lines 649-878
create_full_report(ticker, outcome) ==
    CASE outcome = "saved" ->
            Generated(outcome, ReportPath(ticker), FullHtml(ticker), FullHtml(ticker))
      [] outcome = "not saved" -> Generated(outcome, None, FullHtml(ticker), None)
      [] OTHER -> Generated(outcome, None, ErrorHtml(outcome, ticker), None)

\* report_generator.py lines 882-1103
create_wordpress_report_assets(ticker, outcome) ==
    CASE outcome = "saved" -> Generated(outcome, ChartPath(ticker), HtmlFragment(ticker), None)
      [] outcome = "not saved" -> Generated(outcome, None, HtmlFragment(ticker), None)
      [] OTHER -> Generated(outcome, None, ErrorHtml(outcome, ticker), None)

\* The step of a pipeline that failed and the exception this raised in the
\* pipeline: ValueError, RuntimeError or another subclass of Exception.
Failure(step, exc) == [step |-> step, exc |-> exc]
NoFailure == Failure("none", "none")

WebInitial ==
    /\ wroute = "none"
    /\ wreq = NoRequest
    /\ wticker = <<>>
    /\ wpipe = "none"
    /\ wpc = "idle"
    /\ wsteps = <<>>
    /\ wmacro = "not fetched"
    /\ wfailed = NoFailure
    /\ wgen = NotGenerated
    /\ wfile = None
    /\ wret = NotReturned
    /\ wresp = NoResponse
    /\ wsent = None

\* app.py lines 65-75 and 164-183: the request up to the end of validation.
\* The result is the response given at once, or none when the route goes on.
Validate(route, req) ==
    IF ~req.is_json THEN Response(400, "error", "none")
    ELSE IF req.body = "malformed" THEN FrameworkError(400)
    ELSE IF req.body = "list" THEN FrameworkError(500)
    ELSE IF req.ticker = NotAString THEN FrameworkError(500)
    ELSE IF route = "generate" /\ req.site_name = NotAString THEN FrameworkError(500)
    ELSE IF Upper(Strip(req.ticker.text)) = <<>>
            \/ ~MatchesTickerPattern(Upper(Strip(req.ticker.text)))
    THEN Response(400, "error", "none")
    ELSE NoResponse

\* app.py lines 83-103 and 190: the pipeline the route calls
PipelineOf(route, req) ==
    IF route = "generate"
       /\ ~(Strip(req.site_name.text) # <<>> /\ Strip(req.site_name.text) = Moneystockers)
    THEN "run_pipeline" ELSE "run_wp_pipeline"

\* A call starts with nothing run, generated, written or returned.
Starts ==
    /\ wsteps' = <<>>
    /\ wmacro' = "not fetched"
    /\ wfailed' = NoFailure
    /\ wgen' = NotGenerated
    /\ wfile' = None
    /\ wret' = NotReturned
    /\ wsent' = None

\* app.py lines 57-103 and 156-190: a request arrives at a route
RequestArrives ==
    /\ wpc \in {"idle", "done"}
    /\ \E route \in {"generate", "wp-assets"}, req \in Requests :
        /\ wroute' = route
        /\ wreq' = req
        /\ Starts
        /\ IF Validate(route, req) # NoResponse
           THEN /\ wresp' = Validate(route, req)
                /\ wticker' = <<>>
                /\ wpipe' = "none"
                /\ wpc' = "done"
           ELSE /\ wresp' = NoResponse
                /\ wticker' = Upper(Strip(req.ticker.text))
                /\ wpipe' = PipelineOf(route, req)
                /\ wpc' = "validate"
    /\ UNCHANGED outsideWeb

\* pipeline.py lines 234-283 and auto_publisher.py line 207: a pipeline is
\* called with a ticker that no route has checked
DirectCall ==
    /\ wpc \in {"idle", "done"}
    /\ \E pipe \in {"run_pipeline", "run_wp_pipeline"}, ticker \in TickerTexts :
        /\ wroute' = "direct"
        /\ wreq' = NoRequest
        /\ wticker' = ticker
        /\ wpipe' = pipe
        /\ Starts
        /\ wresp' = NoResponse
        /\ wpc' = "validate"
    /\ UNCHANGED outsideWeb

\* The pipeline returns to its caller.
Returns(result) ==
    /\ wret' = result
    /\ wpc' = IF wroute = "direct" THEN "done" ELSE "returned"

\* The pipeline with its second except clause left out.
Catches_ValueAndRuntimeOnly(exc) == exc \in {"ValueError", "RuntimeError"}

\* pipeline.py lines 107-118 and 219-230: `except (ValueError, RuntimeError)`
\* followed by `except Exception`
Catches(exc) == exc \in {"ValueError", "RuntimeError"} \/ exc = "Exception"

\* pipeline.py lines 107-118 and 219-230: an exception raised in `step`
\* ends the pipeline in one of the two except clauses
Fails(step, exc) ==
    /\ wfailed' = Failure(step, exc)
    /\ IF Catches(exc) THEN Returns(FourNone) ELSE Returns(PipelineRaised)

\* The pipeline goes on to its next step.
GoesOn(next) ==
    /\ wfailed' = wfailed
    /\ wret' = wret
    /\ wpc' = next

\* pipeline.py lines 36-39 and 138-141
PipelineChecksTicker ==
    /\ wpc = "validate"
    /\ IF wticker = <<>> \/ ~MatchesTickerPattern(wticker)
       THEN Fails("validate", "ValueError")
       ELSE GoesOn("stock")
    /\ UNCHANGED <<wroute, wreq, wticker, wpipe, wsteps, wmacro, wgen, wfile, wresp, wsent, outsideWeb>>

\* The stock step treated like the macro step: a missing result is logged
\* and the pipeline goes on.
FetchesStock_WarnsOnly ==
    /\ wpc = "stock"
    /\ wsteps' = Append(wsteps, "stock")
    /\ \E outcome \in {"data", "None", "empty", "ValueError", "Exception"} :
        CASE outcome = "data" -> GoesOn("macro")
          [] outcome \in {"None", "empty"} ->
                /\ wfailed' = Failure("stock", "RuntimeError")
                /\ wret' = wret
                /\ wpc' = "macro"
          [] OTHER -> Fails("stock", outcome)
    /\ UNCHANGED <<wroute, wreq, wticker, wpipe, wmacro, wgen, wfile, wresp, wsent, outsideWeb>>

\* pipeline.py lines 41-44 and 145-148
FetchesStock ==
    /\ wpc = "stock"
    /\ wsteps' = Append(wsteps, "stock")
    /\ \E outcome \in {"data", "None", "empty", "ValueError", "Exception"} :
        CASE outcome = "data" -> GoesOn("macro")
          [] outcome \in {"None", "empty"} -> Fails("stock", "RuntimeError")
          [] OTHER -> Fails("stock", outcome)
    /\ UNCHANGED <<wroute, wreq, wticker, wpipe, wmacro, wgen, wfile, wresp, wsent, outsideWeb>>

\* pipeline.py lines 46-49 and 150-153: the pipeline goes on with whatever
\* fetch_macro_indicators returns
FetchesMacro ==
    /\ wpc = "macro"
    /\ wsteps' = Append(wsteps, "macro")
    /\ \E outcome \in MacroOutcomes :
        /\ wmacro' = outcome
        /\ IF outcome = "raise" THEN Fails("macro", "ValueError") ELSE GoesOn("preprocess")
    /\ UNCHANGED <<wroute, wreq, wticker, wpipe, wgen, wfile, wresp, wsent, outsideWeb>>

\* pipeline.py lines 51-57 and 155-161
Preprocesses ==
    /\ wpc = "preprocess"
    /\ wsteps' = Append(wsteps, "preprocess")
    /\ \E outcome \in PreprocessOutcomes[wmacro] \cup {"empty", "Exception"}
                       \cup (IF "data" \in PreprocessOutcomes[wmacro]
                             THEN {"csv write fails"} ELSE {}) :
        CASE outcome = "data" -> GoesOn("train")
          [] outcome = "empty" -> Fails("preprocess", "RuntimeError")
          [] outcome = "csv write fails" -> Fails("preprocess", "Exception")
          [] OTHER -> Fails("preprocess", outcome)
    /\ UNCHANGED <<wroute, wreq, wticker, wpipe, wmacro, wgen, wfile, wresp, wsent, outsideWeb>>

\* pipeline.py lines 59-65 and 163-169
TrainsModel ==
    /\ wpc = "train"
    /\ wsteps' = Append(wsteps, "train")
    /\ \E outcome \in {"trained", "None", "Exception"} :
        CASE outcome = "trained" -> GoesOn("fundamentals")
          [] outcome = "None" -> Fails("train", "RuntimeError")
          [] OTHER -> Fails("train", outcome)
    /\ UNCHANGED <<wroute, wreq, wticker, wpipe, wmacro, wgen, wfile, wresp, wsent, outsideWeb>>

\* pipeline.py lines 67-89 and 171-193: every failure is caught
FetchesFundamentals ==
    /\ wpc = "fundamentals"
    /\ wsteps' = Append(wsteps, "fundamentals")
    /\ GoesOn("report")
    /\ UNCHANGED <<wroute, wreq, wticker, wpipe, wmacro, wgen, wfile, wresp, wsent, outsideWeb>>

\* The report step with the 'Error Generating Report' test left out.
GeneratesReport_NoMarkerTest ==
    /\ wpc = "report"
    /\ wsteps' = Append(wsteps, "report")
    /\ \E outcome \in ReportOutcomes :
        LET made == IF wpipe = "run_pipeline"
                    THEN create_full_report(wticker, outcome)
                    ELSE create_wordpress_report_assets(wticker, outcome)
        IN  /\ wgen' = made
            /\ wfile' = made.wrote
            /\ IF made.html = None
               THEN Fails("report", "RuntimeError")
               ELSE /\ wfailed' = wfailed
                    /\ Returns(PipelineResult(made.path, made.html))
    /\ UNCHANGED <<wroute, wreq, wticker, wpipe, wmacro, wresp, wsent, outsideWeb>>

\* pipeline.py lines 91-105 and 196-217
GeneratesReport ==
    /\ wpc = "report"
    /\ wsteps' = Append(wsteps, "report")
    /\ \E outcome \in ReportOutcomes :
        LET made == IF wpipe = "run_pipeline"
                    THEN create_full_report(wticker, outcome)
                    ELSE create_wordpress_report_assets(wticker, outcome)
        IN  /\ wgen' = made
            /\ wfile' = made.wrote
            /\ IF made.html = None \/ ContainsMarker(made.html)
               THEN Fails("report", "RuntimeError")
               ELSE /\ wfailed' = wfailed
                    /\ Returns(PipelineResult(made.path, made.html))
    /\ UNCHANGED <<wroute, wreq, wticker, wpipe, wmacro, wresp, wsent, outsideWeb>>

\* What a route does once the pipeline has returned: its response, the
\* file it writes itself and the HTML it puts in the response.
Outcome(response, file, sent) == [response |-> response, file |-> file, sent |-> sent]

\* app.py lines 86-129 and 193-212. `file` is the report file as the
\* pipeline left it, writeOk tells whether the route can write its own file.
ResponseFor(route, pipe, result, file, writeOk) ==
    IF result.kind = "raise"
    THEN Outcome(Response(500, "error", "none"), file, None)
    ELSE IF route = "wp-assets"
    THEN IF result.html # None /\ ~ContainsMarker(result.html)
         THEN Outcome(Response(200, "success", "none"), file, result.html)
         ELSE Outcome(Response(500, "error", "none"), file, None)
    ELSE IF pipe = "run_wp_pipeline"
    THEN IF Truthy(result.html) /\ ~ContainsMarker(result.html)
         THEN IF writeOk
              THEN Outcome(Response(200, "success", "file"), result.html, None)
              ELSE Outcome(Response(200, "success_html_only", "#"), file, None)
         ELSE Outcome(Response(500, "error", "none"), file, None)
    ELSE LET exists == Truthy(result.path) /\ file # None
             usable == Truthy(result.html) /\ ~ContainsMarker(result.html)
         IN  IF exists \/ usable
             THEN IF exists
                  THEN Outcome(Response(200, "success", "file"), file, None)
                  ELSE Outcome(Response(200, "success_html_only", "#"), file, None)
             ELSE Outcome(Response(500, "error", "none"), file, None)

\* app.py lines 86-134 and 193-214
Responds ==
    /\ wpc = "returned"
    /\ \E writeOk \in BOOLEAN :
        LET out == ResponseFor(wroute, wpipe, wret, wfile, writeOk)
        IN  /\ wresp' = out.response
            /\ wfile' = out.file
            /\ wsent' = out.sent
    /\ wpc' = "done"
    /\ UNCHANGED <<wroute, wreq, wticker, wpipe, wsteps, wmacro, wfailed, wgen, wret, outsideWeb>>

WebNext ==
    \/ RequestArrives
    \/ DirectCall
    \/ PipelineChecksTicker
    \/ FetchesStock
    \/ FetchesMacro
    \/ Preprocesses
    \/ TrainsModel
    \/ FetchesFundamentals
    \/ GeneratesReport
    \/ Responds

(***************************************************************************)
(* Specifications                                                          *)
(***************************************************************************)
\* A program that is not running.
FetchIdle(file) == FetchInitWith({file})

PubIdle(excel) ==
    /\ PubInitWith([min |-> Numeral(1), max |-> Numeral(1)], << Writer("w1", 1) >>, excel, Missing)
    /\ published_on_date = Uncounted

\* fetch_stock_data called again and again, over any files in data_cache
WebIdle(pc) == WebInitial /\ wpc = pc

MacroIdle(file) == MacroInitWith({file})

PrepIdle == PrepInitWith({Series(0, 0, {})}, {Series(0, 0, {})}, {TRUE})

FilesIdle == FilesInitWith({{}})

SentimentIdle ==
    SentimentInitWith({[Current_Price |-> Absent, SMA_50 |-> Absent, SMA_200 |-> Absent,
                        RSI_14 |-> Absent, MACD_Hist |-> Absent]}, {0})

\* fetch_macro_indicators called again and again, over any cache file
MacroInit ==
    /\ MacroInitWith(MacroCacheFiles)
    /\ FetchIdle(NoFile)
    /\ PubIdle(<< <<"A">> >>)
    /\ WebIdle("idle")
    /\ PrepIdle
    /\ SentimentIdle
    /\ FilesIdle

SpecMacro == MacroInit /\ [][MacroNext]_vars

\* preprocess_data called again and again
PrepInit ==
    /\ PrepInitWith(StockSeries, MacroSeries, BOOLEAN)
    /\ SentimentIdle
    /\ FilesIdle
    /\ FetchIdle(NoFile)
    /\ MacroIdle(NoFile)
    /\ PubIdle(<< <<"A">> >>)
    /\ WebIdle("idle")

SpecPrep == PrepInit /\ [][PrepNext]_vars

FetchInit ==
    /\ FetchInitWith(CacheFiles)
    /\ PubIdle(<< <<"A">> >>)
    /\ WebIdle("idle")
    /\ MacroIdle(NoFile)
    /\ PrepIdle
    /\ SentimentIdle
    /\ FilesIdle

\* the Flask application waiting for requests, and the callers of the
\* pipelines outside it
WebInit ==
    /\ WebIdle("idle")
    /\ MacroIdle(NoFile)
    /\ PrepIdle
    /\ SentimentIdle
    /\ FilesIdle
    /\ FetchIdle(NoFile)
    /\ PubIdle(<< <<"A">> >>)

SpecWeb == WebInit /\ [][WebNext]_vars

SpecFetch == FetchInit /\ [][FetchNext]_vars

FairSpecFetch == SpecFetch /\ WF_vars(FetchLoop)

\* lines 34-198 and 394-395: the state once the module is loaded and the
\* first job is scheduled, in each installation
PubInit ==
    /\ \E d \in Deployments : PubInitWith(DefaultEnv, d.writers, d.excel, Missing)
    /\ published_on_date = Uncounted
    /\ FetchIdle(NoFile)
    /\ WebIdle("idle")
    /\ MacroIdle(NoFile)
    /\ PrepIdle
    /\ SentimentIdle
    /\ FilesIdle

SpecPub == PubInit /\ [][PubNext]_vars

\* The same for every setting of the two interval variables, in the
\* installation with one writer and one ticker.
SchedInit ==
    /\ \E e \in [min : IntervalStrings, max : IntervalStrings] :
          PubInitWith(e, << Writer("w1", 1) >>, << <<"A">> >>, Missing)
    /\ published_on_date = Uncounted
    /\ FetchIdle(NoFile)
    /\ WebIdle("idle")
    /\ MacroIdle(NoFile)
    /\ PrepIdle
    /\ SentimentIdle
    /\ FilesIdle

SpecSched == SchedInit /\ [][PubNext]_vars

\* The installation with one writer and one ticker, a job every minute,
\* where the posts of each date are counted over all runs of the process.
DailyInit ==
    /\ PubInitWith([min |-> Numeral(1), max |-> Numeral(1)], << Writer("w1", 1) >>,
                   << <<"A">> >>, Missing)
    /\ published_on_date = 0
    /\ FetchIdle(NoFile)
    /\ WebIdle("idle")
    /\ MacroIdle(NoFile)
    /\ PrepIdle
    /\ SentimentIdle
    /\ FilesIdle

SpecDaily == DailyInit /\ [][PubNext]_vars

\* Any lists and index handed to save_state, in the installation with two
\* writers and the master list <<A, B>>.
StateInit ==
    /\ env = [min |-> Numeral(1), max |-> Numeral(1)]
    /\ published_on_date = Uncounted
    /\ MIN_INTERVAL_MINUTES = 1
    /\ MAX_INTERVAL_MINUTES = 1
    /\ WRITERS_CONFIG = << Writer("w1", 1), Writer("w2", 2) >>
    /\ MASTER_TICKERS_LIST = load_tickers_from_excel(<< <<"A">>, <<"B">> >>)
    /\ pending_tickers \in TickerLists
    /\ failed_tickers \in TickerLists
    /\ last_writer_idx_processed \in -2..(Len(WRITERS_CONFIG) + 1)
    /\ writer_iterator = 0
    /\ posts_published_today = 0
    /\ last_publish_time = NoTime
    /\ today = 0
    /\ stateFile \in {Missing, Corrupt}
    /\ jobs = {ScheduledJob(0, 1)}
    /\ lastJob = NoJob
    /\ lastProcessed = NoneProcessed
    /\ pass = [from |-> "state file", log |-> <<>>]
    /\ roundTrip = "removed"
    /\ FetchIdle(NoFile)
    /\ WebIdle("idle")
    /\ MacroIdle(NoFile)
    /\ PrepIdle
    /\ SentimentIdle
    /\ FilesIdle

SpecState == StateInit /\ [][StateNext]_vars

\* determine_sentiment called on any indicator values around a price of
\* 1000 and any forecast change around the steps of the score
SentimentInit ==
    /\ SentimentInitWith([Current_Price : {Absent, NaN, 1000},
                          SMA_50 : {Absent, NaN, 990, 1000, 1004, 1010},
                          SMA_200 : {Absent, NaN, 990, 1000, 1010},
                          RSI_14 : {Absent, NaN, 20, 32, 50, 68, 70},
                          MACD_Hist : {Absent, NaN, -2, 0, 2}],
                         {-6, -5, -3, -1, 0, 1, 3, 5, 6})
    /\ FilesIdle
    /\ FetchIdle(NoFile)
    /\ MacroIdle(NoFile)
    /\ PrepIdle
    /\ PubIdle(<< <<"A">> >>)
    /\ WebIdle("idle")

SpecSentiment == SentimentInit /\ [][SentimentNext]_vars

\* The server started with any stock cache files in data_cache
FilesInit ==
    /\ FilesInitWith(SUBSET {"A", "B"})
    /\ FetchIdle(NoFile)
    /\ MacroIdle(NoFile)
    /\ PrepIdle
    /\ SentimentIdle
    /\ PubIdle(<< <<"A">> >>)
    /\ WebIdle("idle")

SpecFiles == FilesInit /\ [][FilesNext]_vars

(***************************************************************************)
(* Properties of fetch_stock_data                                          *)
(***************************************************************************)
\* A cache file as the claims describe a valid one: it exists, is readable,
\* has all six required columns, at least one row and no invalid date.
ValidCache(file) ==
    /\ file \notin {NoFile, Unreadable}
    /\ \A c \in {"Date", "Open", "High", "Low", "Close", "Volume"} : c \in file.cols
    /\ file.rows >= 1
    /\ file.badDates = FALSE

\* C1: a call that finds a valid cache file for its ticker returns the
\* cached rows at once, with no download attempt and without touching the
\* file; and no step ever changes a valid cache file, so every later call
\* for the ticker finds it again (the cache never expires).
C1_CacheFirst ==
    [][ /\ ( /\ fpc \in {"idle", "done"}
             /\ fargs'.app_root # ""
             /\ ValidCache(cache[fargs'.ticker]) )
           => /\ fpc' = "done"
              /\ fresult' = RetData(cache[fargs'.ticker].cols, cache[fargs'.ticker].rows, TRUE)
              /\ downloads' = 0
              /\ cache' = cache
        /\ \A t \in FetchTickers : ValidCache(cache[t]) => cache'[t] = cache[t]
      ]_vars

C1_Witness ==
    /\ fpc = "done"
    /\ fresult.kind = "data"
    /\ fresult.fromCache
    /\ downloads = 0
    /\ ValidCache(cache[fargs.ticker])
    /\ "Adj Close" \in fresult.cols

\* C2: the retry loop makes at most max_retries download attempts, the
\* k-th rate-limit error is followed by a wait of pause_secs*k, the call
\* returns None once max_retries rate-limit errors have occurred, and the
\* loop always terminates.
C2_RetryBounded ==
    /\ [](/\ downloads <= fargs.max_retries
          /\ attempt <= fargs.max_retries
          /\ Len(waits) = attempt
          /\ \A k \in 1..Len(waits) : waits[k] = fargs.pause_secs * k)
    /\ [][(fpc = "loop" /\ attempt = fargs.max_retries)
            => (fpc' = "done" /\ fresult' = RetNone /\ downloads' = downloads)]_vars
    /\ ((fpc = "loop") ~> (fpc = "done"))

C2_Witness ==
    /\ fpc = "done"
    /\ fargs.max_retries = 3
    /\ fargs.pause_secs = 2
    /\ downloads = 3
    /\ waits = <<2, 4, 6>>
    /\ fresult = RetNone

\* C3: the cache file is written only by a call whose download was
\* non-empty and had, once its labels were flattened and its date column
\* was named Date, all six required columns; the file written has the six required columns, so it passes the
\* column test of the cache check; a download that is empty, raises or
\* lacks a column leaves every cache file as it was.
C3_PersistValidated ==
    [][ (cache' # cache) =>
          /\ fpc = "loop" /\ fpc' = "done"
          /\ downloads' = downloads + 1
          /\ dl'.valid + dl'.invalid > 0
          /\ \A c \in {"Date", "Open", "High", "Low", "Close", "Volume"} :
                c \in ProcessedColumns(dl')
          /\ fresult'.kind = "data"
          /\ \A t \in FetchTickers : t # fargs.ticker => cache'[t] = cache[t]
          /\ cache'[fargs.ticker].kind = "csv"
          /\ \A c \in {"Date", "Open", "High", "Low", "Close", "Volume"} :
                c \in cache'[fargs.ticker].cols
      ]_vars

C3_Witness ==
    /\ wrote
    /\ fpc = "done"
    /\ cache[fargs.ticker] = CsvFile(required, dl.valid, FALSE)
    /\ dl.valid = 1

\* The messages of ErrorMessages that speak of no rate limit.
OtherErrors == {"connection reset"}

\* C21: a download attempt that raises an error other than a rate-limit
\* error ends the call at once with that exception: no retry is counted, no
\* wait is added and no cache file changes; an attempt that returns an empty
\* result ends the call with None in the same way; and a call that has
\* ended makes no further download attempt.
C21_NoRetryOnOtherErrors ==
    [][ /\ (fpc = "loop" /\ downloads' = downloads + 1 /\ ferror' \in OtherErrors) =>
              /\ fpc' = "done"
              /\ fresult' = Raised("download error")
              /\ attempt' = attempt /\ waits' = waits
              /\ cache' = cache /\ ~wrote'
        /\ (fpc = "loop" /\ downloads' = downloads + 1 /\ ferror' = NoError
              /\ dl'.valid + dl'.invalid = 0) =>
              /\ fpc' = "done"
              /\ fresult' = RetNone
              /\ attempt' = attempt /\ waits' = waits
              /\ cache' = cache /\ ~wrote'
        /\ (fpc = "done" /\ fpc' = "done") => downloads' = downloads \/ downloads' = 0
        /\ (fpc = "done" /\ fpc' = "loop") => downloads' = 0
      ]_vars

\* A call met one rate-limit error, waited, and was ended by another error
\* at its second attempt, with the cache file still missing.
C21_Witness ==
    /\ fpc = "done"
    /\ fresult = Raised("download error")
    /\ ferror = "connection reset"
    /\ downloads = 2
    /\ attempt = 1
    /\ cache[fargs.ticker] = NoFile

(***************************************************************************)
(* Properties of the auto-publisher                                        *)
(***************************************************************************)
\* C4: from the default state (pending = master list, retry list empty) the
\* ticker-processing jobs attempt the tickers of the master list in
\* master-list order, each exactly once, until the pending list is refilled:
\* what was attempted so far, followed by what is still pending, is the
\* master list, and no ticker was attempted twice.
C4_MasterOrder ==
    pass.from = "master" =>
        /\ pass.log \o pending_tickers = MASTER_TICKERS_LIST
        /\ \A i, j \in 1..Len(pass.log) : pass.log[i] = pass.log[j] => i = j

C4_Witness ==
    /\ pass.from = "master"
    /\ Len(MASTER_TICKERS_LIST) = 3
    /\ pass.log = MASTER_TICKERS_LIST
    /\ pending_tickers = <<>>
    /\ failed_tickers # <<>>

\* A step in which a job ran that processed a ticker.
TickerJobStep == jobs' # jobs /\ lastJob'.kind = "processed"

\* C5: a ticker-processing job uses the writer at index (i+1) mod N when the
\* ticker-processing job before it used index i, whatever the outcome of
\* that job, and also across a restart from the state file that job saved.
C5_RoundRobin ==
    [][ (TickerJobStep /\ lastProcessed.writer # -1)
          => lastProcessed'.writer = (lastProcessed.writer + 1) % Len(WRITERS_CONFIG) ]_vars

\* C6: after a job that processed a ticker and saved the state, the state
\* file holds the pending list, the retry list and the writer index that are
\* in memory.
C6_FileMatchesMemory ==
    (lastJob.kind = "processed" /\ lastJob.save = "saved") =>
        /\ stateFile.kind = "dict"
        /\ stateFile.pending_tickers = pending_tickers
        /\ stateFile.failed_tickers_retry_later = failed_tickers
        /\ stateFile.last_writer_index = last_writer_idx_processed

C6_Witness ==
    /\ lastJob.kind = "processed"
    /\ lastJob.save = "saved"
    /\ pending_tickers # <<>>
    /\ failed_tickers # <<>>
    /\ last_writer_idx_processed = 1
    /\ stateFile = StateDict(pending_tickers, 1, failed_tickers)

\* C7: load_state after save_state gives back the pending list, the retry
\* list and the writer index that were saved, when the pending list is not
\* empty, all tickers of both lists are in the master list and the index i
\* satisfies -1 <= i < number of writers; a missing or unreadable state file
\* gives the default state.
C7_RoundTrip ==
    roundTrip = "loaded" =>
        /\ ( /\ stateFile \notin {Missing, Corrupt}
             /\ stateFile.pending_tickers # <<>>
             /\ \A k \in 1..Len(stateFile.pending_tickers) :
                    \E m \in 1..Len(MASTER_TICKERS_LIST) :
                        MASTER_TICKERS_LIST[m] = stateFile.pending_tickers[k]
             /\ \A k \in 1..Len(stateFile.failed_tickers_retry_later) :
                    \E m \in 1..Len(MASTER_TICKERS_LIST) :
                        MASTER_TICKERS_LIST[m] = stateFile.failed_tickers_retry_later[k]
             /\ -1 <= stateFile.last_writer_index
             /\ stateFile.last_writer_index < Len(WRITERS_CONFIG) )
            => /\ pending_tickers = stateFile.pending_tickers
               /\ failed_tickers = stateFile.failed_tickers_retry_later
               /\ last_writer_idx_processed = stateFile.last_writer_index
        /\ stateFile \in {Missing, Corrupt}
            => /\ pending_tickers = MASTER_TICKERS_LIST
               /\ failed_tickers = <<>>
               /\ last_writer_idx_processed = -1

C7_Witness ==
    /\ roundTrip = "loaded"
    /\ stateFile = StateDict(<< <<"B">> >>, 1, << <<"A">>, <<"B">> >>)
    /\ pending_tickers = << <<"B">> >>
    /\ failed_tickers = << <<"A">>, <<"B">> >>
    /\ last_writer_idx_processed = 1

\* The interval bounds as the claim gives them for an environment.
ClaimedIntervals(e) ==
    IF e.min.numeral /\ e.max.numeral /\ e.min.val >= 1 /\ e.max.val >= 1 /\ e.min.val <= e.max.val
    THEN <<e.min.val, e.max.val>>
    ELSE <<1, 2>>

CounterAtCheck ==
    IF last_publish_time # NoTime /\ last_publish_time # today THEN 0 ELSE posts_published_today

\* C9: posts_published_today never exceeds 15; a job that publishes raises
\* it by one and nothing else raises it; a job that finds it at 15 or more
\* runs no pipeline and leaves the pending list, the retry list, the writer
\* rotation and the state file as they were.
C9_DailyLimit ==
    /\ [](posts_published_today <= 15)
    /\ [][ /\ (jobs' # jobs /\ lastJob'.kind # "none" /\ lastJob'.published)
                => posts_published_today' = CounterAtCheck + 1
           /\ (posts_published_today' > posts_published_today)
                => /\ jobs' # jobs /\ lastJob'.kind = "processed" /\ lastJob'.published
                   /\ posts_published_today' = posts_published_today + 1
           /\ (jobs' # jobs /\ lastJob'.kind # "none" /\ CounterAtCheck >= 15)
                => /\ lastJob'.kind = "limit"
                   /\ lastJob'.pipeline = "not run"
                   /\ ~lastJob'.published
                   /\ UNCHANGED <<pending_tickers, failed_tickers, writer_iterator,
                                  last_writer_idx_processed, stateFile, posts_published_today>>
         ]_vars

C9_Witness ==
    /\ lastJob.kind = "limit"
    /\ posts_published_today = 15
    /\ pending_tickers # <<>>

\* The requests C10 is about: the Content-Type is not JSON, or the body is
\* an object whose ticker string, stripped and upper-cased, is empty or does
\* not match the pattern.
MustBeRejected(req) ==
    \/ ~req.is_json
    \/ /\ req.body = "object"
       /\ req.ticker.type = "string"
       /\ \/ Upper(Strip(req.ticker.text)) = <<>>
          \/ ~MatchesTickerPattern(Upper(Strip(req.ticker.text)))

\* C10: once a route has handled a request whose body is not JSON or whose
\* ticker, stripped and upper-cased, is empty or fails ^[A-Z0-9\^.-]+$, its
\* response is 400 with status 'error' and no pipeline was called; and a
\* pipeline called with a ticker that is empty or fails the pattern never
\* runs the stock-data step.
C10_Validation ==
    /\ (wroute \in {"generate", "wp-assets"} /\ MustBeRejected(wreq))
          => /\ wresp = Response(400, "error", "none")
             /\ wpipe = "none"
             /\ wsteps = <<>>
    /\ (wpipe # "none" /\ (wticker = <<>> \/ ~MatchesTickerPattern(wticker)))
          => wsteps = <<>>

\* The stripped, upper-cased ticker of a request is a valid one.
ValidTicker(req) ==
    /\ req.is_json
    /\ req.body = "object"
    /\ req.ticker.type = "string"
    /\ Upper(Strip(req.ticker.text)) # <<>>
    /\ MatchesTickerPattern(Upper(Strip(req.ticker.text)))

\* C11: once POST /generate has answered a request with a valid ticker,
\* exactly one pipeline was called, run_wp_pipeline exactly when the
\* stripped site_name is 'moneystockers'; the answer is 'success' with a
\* viewer_url for the report file exactly when that file was written, it is
\* 'success_html_only' with viewer_url '#' when the pipeline returned HTML
\* and no file was written, and it is HTTP 500 with status 'error' when the
\* pipeline returned no usable HTML.
C11_GenerateStatuses ==
    (wroute = "generate" /\ wpc = "done" /\ ValidTicker(wreq)) =>
        /\ wpipe \in {"run_pipeline", "run_wp_pipeline"}
        /\ wpipe = "run_wp_pipeline" <=>
              (wreq.site_name.type = "string" /\ Strip(wreq.site_name.text) = Moneystockers)
        /\ (wresp.status = "success" /\ wresp.viewer_url = "file") <=> wfile # None
        /\ (Truthy(wret.html) /\ ~ContainsMarker(wret.html) /\ wfile = None)
              => wresp = Response(200, "success_html_only", "#")
        /\ ~(Truthy(wret.html) /\ ~ContainsMarker(wret.html))
              => wresp = Response(500, "error", "none")

(***************************************************************************)
(* Properties of the pipelines                                             *)
(***************************************************************************)
\* C12: a pipeline call never ends with an exception, and what it returns
\* is four None values when ticker validation, the stock fetch,
\* preprocessing, model training or report generation failed, and otherwise
\* a tuple whose HTML is not None and does not contain the marker
\* 'Error Generating Report'.
C12_AlwaysFourTuple ==
    /\ wret.kind # "raise"
    /\ wret.kind = "tuple" =>
          IF wfailed.step \in {"validate", "stock", "preprocess", "train", "report"}
          THEN wret = FourNone
          ELSE /\ wret.html # None
               /\ ~ContainsMarker(wret.html)

\* A step raised something other than ValueError and RuntimeError and the
\* pipeline returned.
C12_Witness ==
    /\ wret = FourNone
    /\ wfailed.step \in {"stock", "preprocess", "train"}
    /\ wfailed.exc = "Exception"

\* The steps of a pipeline in the order of its code.
StepOrder == <<"stock", "macro", "preprocess", "train", "fundamentals", "report">>

\* C13: the steps a pipeline call has run are always the first steps of the
\* fixed order, each once; a call that returned without a failing step ran
\* all six; and a call in which the stock fetch, preprocessing or model
\* training failed ran nothing after the failing step.
C13_StepOrder ==
    /\ Len(wsteps) <= Len(StepOrder)
    /\ wsteps = SubSeq(StepOrder, 1, Len(wsteps))
    /\ (wret.kind = "tuple" /\ wfailed = NoFailure) => wsteps = StepOrder
    /\ wfailed.step \in {"stock", "preprocess", "train"} => wsteps[Len(wsteps)] = wfailed.step

\* Model training failed after the three steps before it, and the call is over.
C13_Witness ==
    /\ wfailed.step = "train"
    /\ wsteps = <<"stock", "macro", "preprocess", "train">>
    /\ wpc = "done"

(***************************************************************************)
(* Properties of fetch_macro_indicators                                    *)
(***************************************************************************)
\* The cache file is missing or is not used by the call: it cannot be read,
\* lacks a base column, has no rows or an invalid date, or its rows cannot
\* be processed.
MacroCacheInvalid(file, call) ==
    \/ file \in {NoFile, Unreadable}
    \/ /\ file.kind = "csv"
       /\ \/ ~({"Date", "Interest_Rate", "SP500"} \subseteq file.cols)
          \/ file.rows = 0
          \/ file.badDates
          \/ call.cacheRows = "raises"

\* C14: every call given an app_root returns a dataset (never None, never
\* an exception); when the cache file is missing or invalid and there is no
\* API key, FRED returns nothing or anything raises, the call returns the
\* generated dataset with the columns Date, Interest_Rate, SP500,
\* Interest_Rate_MA30 and SP500_MA30; and a call that returns the generated
\* dataset leaves the cache file as it was.
C14_MacroFallback ==
    [][ (mresult' # NoResult /\ mcall'.app_root # "") =>
          /\ mresult'.kind = "data"
          /\ (MacroCacheInvalid(mcache, mcall')
                /\ (~mcall'.key \/ mcall'.fred.kind \in {"raises", "empty", "unexpected shape"}))
             => /\ mresult'.source = "fallback"
                /\ mresult'.cols = {"Date", "Interest_Rate", "SP500",
                                    "Interest_Rate_MA30", "SP500_MA30"}
          /\ mresult'.source = "fallback" => mcache' = mcache
      ]_vars

\* A call with an API key and a cache file with an invalid date got nothing
\* from FRED, could have written the file, and returned the generated dataset.
C14_Witness ==
    /\ mresult.kind = "data"
    /\ mresult.source = "fallback"
    /\ mcall.key
    /\ mcall.fred.kind = "empty"
    /\ mcall.saveOk
    /\ mcache.kind = "csv"
    /\ mcache.badDates

(***************************************************************************)
(* Properties of preprocess_data                                           *)
(***************************************************************************)
\* The calendar days from max(first stock date, first macro date) to
\* min(last stock date, last macro date); empty when a table is empty or
\* the tables do not overlap.
CommonRange(stock, macro) ==
    IF Observed(stock) = {} \/ Observed(macro) = {} THEN {}
    ELSE {d \in 0..(MinMergedRows + MaxGap) :
            /\ \A e \in {Earliest(Observed(stock)), Earliest(Observed(macro))} : d >= e
            /\ \A l \in {Latest(Observed(stock)), Latest(Observed(macro))} : d <= l}

\* The observation a day takes from the set `rows` of observation days: its
\* own, else the latest earlier one, else the earliest later one.
NearestObservation(rows, day) ==
    IF {d \in rows : d <= day} # {} THEN Latest({d \in rows : d <= day})
    ELSE IF {d \in rows : d >= day} # {} THEN Earliest({d \in rows : d >= day})
    ELSE NaN

\* C15 as stated, for tables that have rows: the call raises ValueError when the common range has
\* fewer than 30 days, and a table it returns has exactly one row per day
\* of the range, each day holding the values of the latest earlier
\* observation of the input table, or of the earliest later one when the
\* input has none earlier.
C15_AlignmentAsStated ==
    (presult # NoResult /\ Observed(pstock) # {} /\ Observed(pmacro) # {}) =>
        LET range == CommonRange(pstock, pmacro) IN
        /\ Cardinality(range) < 30 => presult = Raised("ValueError")
        /\ presult.kind = "data" =>
              /\ DOMAIN presult.rows = range
              /\ \A day \in range :
                    /\ presult.rows[day].stock = NearestObservation(Observed(pstock), day)
                    /\ presult.rows[day].macro = NearestObservation(Observed(pmacro), day)

\* C15, amended, for tables that have rows: the call raises ValueError when the common range has fewer
\* than 30 days, and a table it returns has exactly one row per day of the
\* range, each day holding the values of the latest earlier observation
\* inside the range, or of the earliest later observation inside the range
\* when the range holds none earlier; observations outside the range are
\* not used.
C15_AlignmentInRange ==
    (presult # NoResult /\ Observed(pstock) # {} /\ Observed(pmacro) # {}) =>
        LET range == CommonRange(pstock, pmacro) IN
        /\ Cardinality(range) < 30 => presult = Raised("ValueError")
        /\ presult.kind = "data" =>
              /\ DOMAIN presult.rows = range
              /\ \A day \in range :
                    /\ presult.rows[day].stock
                          = NearestObservation(Observed(pstock) \cap range, day)
                    /\ presult.rows[day].macro
                          = NearestObservation(Observed(pmacro) \cap range, day)

\* A table was returned in which the stock rows of the first days of the
\* range were filled from a later day and those of a later gap from an
\* earlier day.
C15_Witness ==
    /\ presult.kind = "data"
    /\ \E day \in DOMAIN presult.rows : presult.rows[day].stock > day
    /\ \E day \in DOMAIN presult.rows : presult.rows[day].stock \in 0..(day - 1)

(***************************************************************************)
(* Properties of the retry list and the daily counter                      *)
(***************************************************************************)
\* The pending list a job works on once lines 304-312 have refilled it, and
\* the retry list next to it.
PendingAtPop ==
    IF pending_tickers # <<>> THEN pending_tickers
    ELSE IF failed_tickers # <<>> THEN failed_tickers
    ELSE MASTER_TICKERS_LIST

FailedAtPop == IF pending_tickers = <<>> THEN <<>> ELSE failed_tickers

Count(list, x) == Cardinality({i \in 1..Len(list) : list[i] = x})

\* C16: every ticker-processing job removes its ticker from the head of the
\* pending list whatever the outcome; when report generation or the publish
\* failed the ticker is in the retry list afterwards, once, appended unless
\* it was there already; when the publish succeeded the job adds nothing to
\* the retry list.
C16_PopAndRetry ==
    [][ TickerJobStep =>
          /\ lastJob'.ticker = Head(PendingAtPop)
          /\ pending_tickers' = Tail(PendingAtPop)
          /\ lastJob'.published => lastJob'.pipeline = "html"
          /\ ~lastJob'.published =>
                /\ Count(failed_tickers', lastJob'.ticker) = 1
                /\ failed_tickers' \in {FailedAtPop, Append(FailedAtPop, lastJob'.ticker)}
                /\ \A t \in StateTickers : Count(failed_tickers', t) <= 1
          /\ lastJob'.published => failed_tickers' = FailedAtPop
      ]_vars

\* A job whose report was generated and whose publish failed has put its
\* ticker behind an earlier failure, with tickers still pending.
C16_Witness ==
    /\ lastJob.kind = "processed"
    /\ lastJob.pipeline = "html"
    /\ ~lastJob.published
    /\ Len(failed_tickers) = 2
    /\ failed_tickers[2] = lastJob.ticker
    /\ pending_tickers # <<>>

\* C17: a job that finds the pending list empty and the retry list not
\* empty works on the retry list, in its order, and empties the retry list;
\* the pending list is taken from the master list only when both lists are
\* empty, and a job that finds tickers pending goes on with them; so the
\* failed tickers are retried before the master list is started again.
C17_RetryBeforeMaster ==
    [][ TickerJobStep =>
          /\ (pending_tickers = <<>> /\ failed_tickers # <<>>) =>
                /\ <<lastJob'.ticker>> \o pending_tickers' = failed_tickers
                /\ failed_tickers' = IF lastJob'.published THEN <<>> ELSE <<lastJob'.ticker>>
          /\ (pending_tickers = <<>> /\ failed_tickers = <<>>) =>
                <<lastJob'.ticker>> \o pending_tickers' = MASTER_TICKERS_LIST
          /\ pending_tickers # <<>> =>
                <<lastJob'.ticker>> \o pending_tickers' = pending_tickers
      ]_vars

\* A job has taken over a retry list of two tickers that is not the head of
\* the master list, and processed the first of them.
C17_Witness ==
    /\ lastJob.kind = "processed"
    /\ pass.from = "retry list"
    /\ pass.log = <<lastJob.ticker>>
    /\ Len(pending_tickers) = 1
    /\ lastJob.ticker # Head(MASTER_TICKERS_LIST)

\* C18: the daily counter is set to 0 at the start of any job that runs on a
\* date other than that of the last successful publish, before the limit is
\* tested: such a job is never skipped at the limit, and a job on the date
\* of the last publish finds the counter as it was.
C18_NewDayReset ==
    [][ (jobs' # jobs /\ lastJob'.kind # "none") =>
          /\ (last_publish_time # NoTime /\ last_publish_time # today) =>
                /\ lastJob'.kind # "limit"
                /\ posts_published_today' = IF lastJob'.published THEN 1 ELSE 0
          /\ (last_publish_time = NoTime \/ last_publish_time = today) =>
                /\ lastJob'.kind = "limit" <=> posts_published_today >= 15
                /\ posts_published_today'
                      = IF lastJob'.published THEN posts_published_today + 1
                        ELSE posts_published_today
      ]_vars

\* After a publish on day 0 the first job of day 1 has processed a ticker
\* without publishing it: the counter is 0 again.
C18_Witness ==
    /\ today = 1
    /\ last_publish_time = 0
    /\ lastJob.kind = "processed"
    /\ ~lastJob.published
    /\ posts_published_today = 0

\* C19: publish_to_wordpress is not called for a ticker whose pipeline run
\* raised, returned no HTML or returned HTML that contains "Error Generating
\* Report": the job makes no WordPress request and does not raise
\* posts_published_today; a request is made only with HTML free of the
\* marker.
C19_NoPublishWithoutReport ==
    [][ TickerJobStep =>
          LET result == PipelineReturn(lastJob'.pipeline, lastJob'.ticker) IN
          /\ (result.kind = "raise" \/ result.html.isNone \/ ContainsMarker(result.html)) =>
                /\ ~lastJob'.wp_request
                /\ ~lastJob'.published
                /\ posts_published_today' = CounterAtCheck
          /\ lastJob'.wp_request =>
                /\ result.kind = "tuple"
                /\ Truthy(result.html)
                /\ ~ContainsMarker(result.html)
      ]_vars

\* A job whose pipeline returned error HTML has ended without a WordPress
\* request, its ticker on the retry list, after an earlier publish.
C19_Witness ==
    /\ lastJob.kind = "processed"
    /\ lastJob.pipeline = "error html"
    /\ ContainsMarker(PipelineReturn(lastJob.pipeline, lastJob.ticker).html)
    /\ ~lastJob.wp_request
    /\ posts_published_today = 1
    /\ failed_tickers = <<lastJob.ticker>>

(***************************************************************************)
(* Properties of the error HTML of the report generators                   *)
(***************************************************************************)
\* str or None that is not error HTML
FreeOfMarker(value) == value = None \/ ~ContainsMarker(value)

\* C20: a report generator whose preparation or rendering fails raises
\* nothing: it returns no path and HTML that contains "Error Generating
\* Report", and writes no file. Its callers treat this HTML as a failure:
\* the pipeline returns four None values, get_report_html_and_chart keeps no
\* HTML, and a Flask route answers 500 with status 'error'; so HTML with the
\* marker is never in a saved file, in a pipeline's result, in a response or
\* in what the auto-publisher goes on to publish.
C20_ErrorHtmlStopsHere ==
    /\ wgen.outcome \in {"ValueError", "Exception"} =>
          /\ wgen.path = None
          /\ wgen.html # None /\ ContainsMarker(wgen.html)
          /\ wgen.wrote = None
          /\ wfailed.step = "report"
          /\ wret = FourNone
          /\ ~Truthy(get_report_html_and_chart(wret).report_html)
          /\ wpc = "done" /\ wroute \in {"generate", "wp-assets"}
                => wresp = Response(500, "error", "none")
    /\ FreeOfMarker(wfile)
    /\ FreeOfMarker(wret.html)
    /\ FreeOfMarker(wsent)
    /\ FreeOfMarker(get_report_html_and_chart(wret).report_html)

\* /generate has answered 500 to a request whose report could not be
\* rendered: create_full_report returned error HTML and nothing was saved.
C20_Witness ==
    /\ wroute = "generate"
    /\ wpipe = "run_pipeline"
    /\ wpc = "done"
    /\ wgen.outcome = "Exception"
    /\ ContainsMarker(wgen.html)
    /\ wfile = None
    /\ wresp = Response(500, "error", "none")

(***************************************************************************)
(* Properties of the pipelines without macro data                          *)
(***************************************************************************)
\* C22: a pipeline whose macro fetch gave an empty table goes on without
\* macro data: when it comes to preprocessing, there are stock tables for
\* which preprocessing gives it data to train on and to report.
C22_ProceedsWithoutMacro ==
    (wmacro = "empty" /\ wpc = "preprocess") => "data" \in PreprocessOutcomes[wmacro]

(***************************************************************************)
(* Properties of determine_sentiment                                       *)
(***************************************************************************)
\* The label the bands of the scores name, for a score in quarters.
LabelOfBand(score) ==
    CASE score >= 10 -> "Strong Bullish"
      [] score >= 4 /\ score < 10 -> "Bullish"
      [] score <= -10 -> "Strong Bearish"
      [] score > -10 /\ score <= -4 -> "Bearish"
      [] OTHER -> "Neutral"

\* The labels from the most bearish to the most bullish.
Bullishness(label) ==
    CASE label = "Strong Bearish" -> 0
      [] label = "Bearish" -> 1
      [] label = "Neutral" -> 2
      [] label = "Bullish" -> 3
      [] label = "Strong Bullish" -> 4

\* C23: determine_sentiment returns "N/A" exactly when Current_Price is
\* missing.  Otherwise the label is the one of the band the score lies in:
\* "Strong Bullish" from 2.5, "Bullish" from 1.0 to below 2.5, "Strong
\* Bearish" up to -2.5, "Bearish" above -2.5 up to -1.0, "Neutral" between;
\* and no larger score has a more bearish label.
C23_LabelOfScore ==
    slabel # NoLabel =>
        /\ (slabel = "N/A") <=> (sdata.Current_Price = Absent)
        /\ sdata.Current_Price # Absent =>
              LET score == SentimentScore(sdata, spct)
              IN  /\ slabel = LabelOfBand(score)
                  /\ \A larger \in score..16 :
                        Bullishness(SentimentLabel(larger)) >= Bullishness(slabel)

\* A call whose score is exactly 2.5 has returned "Strong Bullish".
C23_Witness ==
    /\ sdata.Current_Price = 1000
    /\ SentimentScore(sdata, spct) = 10
    /\ slabel = "Strong Bullish"

(***************************************************************************)
(* Properties of the daily limit over restarts                             *)
(***************************************************************************)
\* C24: on no calendar date are more than 15 posts published, also when
\* the process is stopped and started again during that date.
C24_DailyLimitOverRestarts == published_on_date <= DailyLimit

(***************************************************************************)
(* Properties of concurrent /generate requests                             *)
(***************************************************************************)
\* C25: two /generate requests in flight never write the same output file:
\* no processed CSV, report file or stock cache file written by one of them
\* is written by the other.
C25_NoSharedOutputFile ==
    \A a, b \in written : a.file = b.file => a.by = b.by

====
